---------------------------- MODULE Spec2Model ----------------------------
(***************************************************************************)
(* MusicCRS: the conversational playlist agent (musiccrs/musiccrs.py), its *)
(* playlist store (musiccrs/playlist_service.py), the catalog queries      *)
(* (musiccrs/playlist_db.py) and the question answerer                     *)
(* (musiccrs/qa_system.py).                                                *)
(*                                                                         *)
(* Text is a sequence of one-character strings, so that lower(), strip(),  *)
(* startswith(), substring search and int() are computed, not assumed.     *)
(***************************************************************************)
EXTENDS Integers, Sequences, FiniteSets, TLC

VARIABLES
    db,          \* rows of the sqlite table tracks (playlist_db.SCHEMA_SQL)
    by_user,     \* PlaylistService._by_user: user -> ordered dict of playlists
    current,     \* PlaylistService._current: user -> playlist name
    pending,     \* MusicCRS._pending_disambiguation
    text,        \* the utterance handled by the last step (stripped)
    replies,     \* the messages the agent sent while handling it
    spotify,     \* the SpotifyAPI singleton: configured?, its _popularity_cache
    coverFaults  \* how many times the cover renderer has raised so far

vars == <<db, by_user, current, pending, text, replies, spotify, coverFaults>>

-----------------------------------------------------------------------------
(* Bounds of the model *)

\* the cover renderer raises at most this many times in one run
MaxCoverFaults == 1

-----------------------------------------------------------------------------
(* Python str operations on sequences of characters *)

Uppers == <<"A","B","C","D","E","F","G","H","I","J","K","L","M",
            "N","O","P","Q","R","S","T","U","V","W","X","Y","Z">>
Lowers == <<"a","b","c","d","e","f","g","h","i","j","k","l","m",
            "n","o","p","q","r","s","t","u","v","w","x","y","z">>
UpperSet == {Uppers[i] : i \in 1..26}
DigitChars == <<"0","1","2","3","4","5","6","7","8","9">>
DigitSet == {DigitChars[i] : i \in 1..10}

LowerMap == [c \in UpperSet |-> Lowers[CHOOSE i \in 1..26 : Uppers[i] = c]]
DigitValue == [c \in DigitSet |-> (CHOOSE i \in 1..10 : DigitChars[i] = c) - 1]

LowerChar(c) == IF c \in UpperSet THEN LowerMap[c] ELSE c

\* str.lower()
lower(s) == [i \in 1..Len(s) |-> LowerChar(s[i])]

IsSpace(c) == c = " "

\* s[a-1:b] for 1 <= a, b <= Len(s); empty when a > b
Slice(s, a, b) == IF a > b THEN <<>> ELSE SubSeq(s, a, b)

\* str.strip()
strip(s) ==
    IF \A i \in 1..Len(s) : IsSpace(s[i]) THEN <<>>
    ELSE LET a == CHOOSE i \in 1..Len(s) :
                    /\ ~IsSpace(s[i])
                    /\ \A j \in 1..(i-1) : IsSpace(s[j])
             b == CHOOSE i \in 1..Len(s) :
                    /\ ~IsSpace(s[i])
                    /\ \A j \in (i+1)..Len(s) : IsSpace(s[j])
         IN  SubSeq(s, a, b)

\* s[i-1:].startswith(p), i is 1-based
MatchAt(s, p, i) ==
    /\ i >= 1
    /\ i + Len(p) - 1 <= Len(s)
    /\ \A k \in 1..Len(p) : s[i + k - 1] = p[k]

\* str.startswith
startswith(s, p) == MatchAt(s, p, 1)

\* p in s
contains(s, p) == \E i \in 1..(Len(s) + 1) : MatchAt(s, p, i)

\* str.index(p) + 1 (first occurrence, 1-based); 0 when p does not occur
index(s, p) ==
    IF contains(s, p)
    THEN CHOOSE i \in 1..(Len(s) + 1) :
            /\ MatchAt(s, p, i)
            /\ \A j \in 1..(i-1) : ~MatchAt(s, p, j)
    ELSE 0

\* U+00B2 SUPERSCRIPT TWO, one character: str.isdigit() accepts it, int() does not
Sup2 == "sup2"

\* str.isdigit(): every character is a digit (decimal or not), and there is one
isdigit(s) == Len(s) > 0 /\ \A i \in 1..Len(s) : s[i] \in DigitSet \cup {Sup2}

\* the strings int() converts; on the others that pass isdigit() it raises
\* ValueError
isdecimal(s) == Len(s) > 0 /\ \A i \in 1..Len(s) : s[i] \in DigitSet

S_ValueError == "invalid literal for int() with base 10"

RECURSIVE int(_)
\* int(s) for a string of decimal digits
int(s) == IF Len(s) = 0 THEN 0
          ELSE 10 * int(SubSeq(s, 1, Len(s) - 1)) + DigitValue[s[Len(s)]]


\* the characters of the model in code-point order, for Python's str comparison
Ascii == <<" ", "-", "/">> \o DigitChars \o <<":">> \o Uppers \o <<"_">> \o Lowers
            \o <<Sup2>>
Code == [c \in {Ascii[i] : i \in 1..Len(Ascii)} |->
            CHOOSE i \in 1..Len(Ascii) : Ascii[i] = c]

\* ord() of every character of s
codes(s) == [i \in 1..Len(s) |-> Code[s[i]]]

\* a < b for sequences of integers, as Python compares tuples and strings
SeqLess(a, b) ==
    \E i \in 1..(Len(b)) :
        /\ \A j \in 1..(i-1) : j <= Len(a) /\ a[j] = b[j]
        /\ (i > Len(a) \/ (i <= Len(a) /\ a[i] < b[i]))

\* k1 < k2 for sort keys: tuples of components, each a sequence of integers
KeyLess(k1, k2) ==
    \E j \in 1..Len(k1) :
        /\ \A i \in 1..(j-1) : k1[i] = k2[i]
        /\ SeqLess(k1[j], k2[j])

\* e bound to x in F: the value of e is computed once, however often F uses x
With(e, F(_)) == F(e)

\* f itself, as a table
Tabulated(f) == f @@ <<>>

\* sorted(s, key=Key): ascending by key, equal keys keep their input order
StableSort(s, Key(_)) ==
    With(Tabulated([i \in 1..Len(s) |-> Key(s[i])]), LAMBDA keys :
    With(Tabulated([i \in 1..Len(s) |->
            Cardinality({j \in 1..Len(s) :
                \/ KeyLess(keys[j], keys[i])
                \/ (keys[j] = keys[i] /\ j < i)}) + 1]), LAMBDA rank :
        [p \in 1..Len(s) |-> s[CHOOSE i \in 1..Len(s) : rank[i] = p]]))

\* s[:n]
Take(s, n) == IF n >= Len(s) THEN s ELSE Slice(s, 1, n)

Min(a, b) == IF a <= b THEN a ELSE b

\* the uris of a list of rows or tracks
Uris(s) == [i \in 1..Len(s) |-> s[i].uri]

-----------------------------------------------------------------------------
(* The catalog: table tracks(track_uri PRIMARY KEY, artist, title, album)    *)
(* A row is [uri, artist, title, album]; album <<>> is NULL.                 *)

NoText == <<>>

T1 == [uri |-> <<"t","1">>, artist |-> <<"A","b">>, title |-> <<"H","e","y">>,
       album |-> <<"X">>]
T2 == [uri |-> <<"t","2">>, artist |-> <<"B","c">>, title |-> <<"H","e","y">>,
       album |-> NoText]
T3 == [uri |-> <<"t","3">>, artist |-> <<"A","b">>, title |-> <<"Y","o">>,
       album |-> <<"Z">>]

\* what the build step loaded, and what ensure_db finds to seed an empty table
Catalog == {T1, T2, T3}
SeedRows == Catalog

\* the orders in which sqlite may return rows that its ORDER BY leaves tied:
\* by ascending and by descending uri, so that any two rows come both ways
CatalogOrders == {<<T1.uri, T2.uri, T3.uri>>, <<T3.uri, T2.uri, T1.uri>>}

RowOf(d, uri) == CHOOSE r \in d : r.uri = uri

\* the rows of S in the order ord gives their uris
RowsInOrder(d, S, ord) ==
    SelectSeq([i \in 1..Len(ord) |-> RowOf(d, ord[i])], LAMBDA r : r \in S)

\* ensure_db: an empty table is populated from the MPD folder or the sample
ensure_db(d) == IF d = {} THEN SeedRows ELSE d

\* cursor.fetchone(): the first row of the result, <<>> for None
fetchone(rows) == Take(rows, 1)

\* search_by_artist_title: case-insensitive equality on both fields
search_by_artist_title(d, artist, title, ord) ==
    With(lower(strip(artist)), LAMBDA a :
    With(lower(strip(title)), LAMBDA t :
        IF a = <<>> \/ t = <<>> THEN <<>>
        ELSE fetchone(RowsInOrder(d,
                 {r \in d : lower(r.artist) = a /\ lower(r.title) = t}, ord))))

\* get_track_by_uri: the row with that primary key (<<>> for None)
get_track_by_uri(d, uri, ord) ==
    fetchone(RowsInOrder(d, {r \in d : r.uri = uri}, ord))

\* the LIKE operator of sqlite: in the pattern "%" stands for any text and "_"
\* for any one character; letters match in either case
RECURSIVE Like(_, _)
Like(s, pattern) ==
    IF pattern = <<>> THEN s = <<>>
    ELSE IF Head(pattern) = "%"
    THEN Like(s, Tail(pattern)) \/ (s # <<>> /\ Like(Tail(s), pattern))
    ELSE /\ s # <<>>
         /\ Head(pattern) = "_" \/ LowerChar(Head(pattern)) = LowerChar(Head(s))
         /\ Like(Tail(s), Tail(pattern))

\* search_by_title: exact matches, then the matches of LIKE for the query
\* followed by "%", shorter titles first
search_by_title(d, title, limit, ord) ==
    With(lower(strip(title)), LAMBDA q :
    With({r \in d : lower(r.title) = q}, LAMBDA exact :
    With({r \in d : Like(lower(r.title), q \o <<"%">>) /\ lower(r.title) # q},
         LAMBDA prefix :
        IF q = <<>> THEN <<>>
        ELSE Take(StableSort(RowsInOrder(d, exact \cup prefix, ord),
                             LAMBDA r : << <<IF r \in exact THEN 0 ELSE 1>>,
                                           <<Len(r.title)>> >>),
                  limit))))

\* search_by_artist_title_fuzzy: artist and title both match by equality or by
\* LIKE with the query between "%", ranked by tiers
search_by_artist_title_fuzzy(d, artist, title, limit, ord) ==
    With(lower(strip(artist)), LAMBDA a :
    With(lower(strip(title)), LAMBDA t :
        LET artist_like(r) == Like(lower(r.artist), <<"%">> \o a \o <<"%">>)
            title_starts(r) == Like(lower(r.title), t \o <<"%">>)
            title_like(r) == Like(lower(r.title), <<"%">> \o t \o <<"%">>)
            artist_priority(r) == IF lower(r.artist) = a THEN 0
                                  ELSE IF artist_like(r) THEN 1 ELSE 2
            title_priority(r) == IF lower(r.title) = t THEN 0
                                 ELSE IF title_starts(r) THEN 1
                                 ELSE IF title_like(r) THEN 2 ELSE 3
            hit(r) == /\ (lower(r.artist) = a \/ artist_like(r))
                      /\ (lower(r.title) = t \/ title_like(r))
            key(r) == << <<artist_priority(r)>>, <<title_priority(r)>>,
                         <<Len(r.title)>> >>
        IN  IF a = <<>> \/ t = <<>> THEN <<>>
            ELSE Take(StableSort(RowsInOrder(d, {r \in d : hit(r)}, ord), key),
                      limit)))

\* get_track_popularity: COUNT(*) of the rows with that uri
get_track_popularity(d, uri) == Cardinality({r \in d : r.uri = uri})

\* get_track_info(artist=, title=): the exact match, without stripping
get_track_info(d, artist, title, ord) ==
    IF artist # <<>> /\ title # <<>>
    THEN fetchone(RowsInOrder(d, {r \in d : /\ lower(r.artist) = lower(artist)
                                            /\ lower(r.title) = lower(title)}, ord))
    ELSE <<>>

-----------------------------------------------------------------------------
(* PlaylistService (playlist_service.py)                                     *)
(* A playlist is [name, tracks, cover_url]; a user's dict of playlists is a  *)
(* sequence of them in insertion order.  An operation maps the store st to   *)
(* the store it leaves, with st.err the message of the exception it raised   *)
(* ("" when it returned) and st.val what it returned.                        *)

S_default == <<"d","e","f","a","u","l","t">>

NoCover == <<>>
NoRow == [uri |-> NoText, artist |-> NoText, title |-> NoText, album |-> NoText]

Playlist(name) == [name |-> name, tracks |-> <<>>, cover_url |-> NoCover]

\* Track(track_uri=uri, artist=a, title=t, album=alb)
Track(row) == [uri |-> row.uri, artist |-> row.artist, title |-> row.title,
               album |-> row.album]

Names(pls) == [i \in 1..Len(pls) |-> pls[i].name]
HasName(pls, name) == \E i \in 1..Len(pls) : pls[i].name = name
Pos(pls, name) == CHOOSE i \in 1..Len(pls) : pls[i].name = name

Raise(st, msg) == [st EXCEPT !.err = msg]
Return(st, v) == [st EXCEPT !.err = "", !.val = v]

\* "return v" after a call that left r, unless that call raised
ReturnAfter(r, v) == IF r.err # "" THEN r ELSE Return(r, v)

\* generate_cover: the image is a function of the name and the first 8 tracks
generate_cover(u, pl) == <<pl.name, Uris(Take(pl.tracks, 8))>>

\* _ensure_user
ensure_user(st, u) ==
    IF u \in DOMAIN st.by_user THEN st
    ELSE [st EXCEPT !.by_user = (u :> <<Playlist(S_default)>>) @@ st.by_user,
                    !.current = (u :> S_default) @@ st.current]

\* _refresh_cover: generate_cover's exception, if any, is not caught here
refresh_cover(st, u, name, coverRaises) ==
    IF coverRaises
    THEN Raise([st EXCEPT !.faults = @ + 1], "cover generation failed")
    ELSE With(Pos(st.by_user[u], name), LAMBDA i :
            [st EXCEPT !.by_user[u][i].cover_url =
                           generate_cover(u, st.by_user[u][i])])

\* current_playlist: the store after _ensure_user; CurrentOf reads the playlist
CurrentPos(st, u) == Pos(st.by_user[u], st.current[u])
CurrentOf(st, u) == st.by_user[u][CurrentPos(st, u)]
current_playlist(st, u) == ensure_user(st, u)

\* list_playlists that names the current playlist first: a faulty variant,
\* used to show what ListInCreationOrder rests on
list_playlists_current_first(st, u) ==
    With(ensure_user(st, u), LAMBDA s1 :
        Return(s1, <<s1.current[u]>> \o
                   SelectSeq(Names(s1.by_user[u]), LAMBDA n : n # s1.current[u])))

\* list_playlists
list_playlists(st, u) ==
    With(ensure_user(st, u), LAMBDA s1 : Return(s1, Names(s1.by_user[u])))

\* create_playlist with "self._current[user_id] = name" moved above the test
\* of the name: a faulty variant, used to show what ExistingNameRefused rests on
create_playlist_switching(st, u, name, coverRaises) ==
    With([ensure_user(st, u) EXCEPT !.current[u] = name], LAMBDA s1 :
        IF HasName(s1.by_user[u], name)
        THEN Raise(s1, "Playlist already exists.")
        ELSE ReturnAfter(
                 refresh_cover([s1 EXCEPT !.by_user[u] = Append(@, Playlist(name))],
                               u, name, coverRaises),
                 name))

\* create_playlist without "self._current[user_id] = name": a faulty variant,
\* used to show what NewNameCreated rests on
create_playlist_staying(st, u, name, coverRaises) ==
    With(ensure_user(st, u), LAMBDA s1 :
        IF HasName(s1.by_user[u], name)
        THEN Raise(s1, "Playlist already exists.")
        ELSE ReturnAfter(
                 refresh_cover([s1 EXCEPT !.by_user[u] = Append(@, Playlist(name))],
                               u, name, coverRaises),
                 name))

\* create_playlist
create_playlist(st, u, name, coverRaises) ==
    With(ensure_user(st, u), LAMBDA s1 :
        IF HasName(s1.by_user[u], name)
        THEN Raise(s1, "Playlist already exists.")
        ELSE ReturnAfter(
                 refresh_cover([s1 EXCEPT !.by_user[u] = Append(@, Playlist(name)),
                                          !.current[u] = name],
                               u, name, coverRaises),
                 name))

\* switch_playlist with "self._current[user_id] = name" moved above the test
\* of the name: a faulty variant, used to show what CurrentExists rests on
switch_playlist_unchecked(st, u, name, coverRaises) ==
    With([ensure_user(st, u) EXCEPT !.current[u] = name], LAMBDA s1 :
        IF ~HasName(s1.by_user[u], name)
        THEN Raise(s1, "Playlist does not exist.")
        ELSE ReturnAfter(refresh_cover(s1, u, name, coverRaises), name))

\* switch_playlist without "self._current[user_id] = name": a faulty variant,
\* used to show what SwitchSetsCurrentOnly rests on
switch_playlist_staying(st, u, name, coverRaises) ==
    With(ensure_user(st, u), LAMBDA s1 :
        IF ~HasName(s1.by_user[u], name)
        THEN Raise(s1, "Playlist does not exist.")
        ELSE ReturnAfter(refresh_cover(s1, u, name, coverRaises), name))

\* switch_playlist
switch_playlist(st, u, name, coverRaises) ==
    With(ensure_user(st, u), LAMBDA s1 :
        IF ~HasName(s1.by_user[u], name)
        THEN Raise(s1, "Playlist does not exist.")
        ELSE ReturnAfter(
                 refresh_cover([s1 EXCEPT !.current[u] = name], u, name, coverRaises),
                 name))

\* clear that empties every playlist of the user: a faulty variant, used to
\* show what ClearEmptiesOne rests on
clear_all(st, u, name, coverRaises) ==
    With(ensure_user(st, u), LAMBDA s1 :
    With(IF name # <<>> THEN name ELSE s1.current[u], LAMBDA n :
        IF ~HasName(s1.by_user[u], n)
        THEN Raise(s1, "KeyError")
        ELSE refresh_cover(
                 [s1 EXCEPT !.by_user[u] =
                      [i \in 1..Len(@) |-> [@[i] EXCEPT !.tracks = <<>>]]],
                 u, n, coverRaises)))

\* clear(user_id, name=None): name <<>> stands for None
clear(st, u, name, coverRaises) ==
    With(ensure_user(st, u), LAMBDA s1 :
    With(IF name # <<>> THEN name ELSE s1.current[u], LAMBDA n :
        IF ~HasName(s1.by_user[u], n)
        THEN Raise(s1, "KeyError")
        ELSE refresh_cover(
                 [s1 EXCEPT !.by_user[u][Pos(s1.by_user[u], n)].tracks = <<>>],
                 u, n, coverRaises)))

\* the tail of add and add_by_uri without the test "any(x.track_uri == uri ..)":
\* a faulty variant, used to show what NoDuplicateTracks rests on
AppendAlways(st, u, row, coverRaises) ==
    With(current_playlist(st, u), LAMBDA s1 :
    With(CurrentPos(s1, u), LAMBDA i :
        ReturnAfter(
            refresh_cover([s1 EXCEPT !.by_user[u][i].tracks = Append(@, Track(row))],
                          u, s1.by_user[u][i].name, coverRaises),
            Track(row))))

\* the tail of add and add_by_uri with "pl.tracks.insert(0, track)" for the
\* append: a faulty variant, used to show what AddByUriAppendsOnce rests on
InsertUnlessPresent(st, u, row, coverRaises) ==
    With(current_playlist(st, u), LAMBDA s1 :
    With(CurrentPos(s1, u), LAMBDA i :
    With(s1.by_user[u][i], LAMBDA pl :
        IF \E k \in 1..Len(pl.tracks) : pl.tracks[k].uri = row.uri
        THEN Return(s1, Track(row))
        ELSE ReturnAfter(
                 refresh_cover([s1 EXCEPT !.by_user[u][i].tracks = <<Track(row)>> \o @],
                               u, pl.name, coverRaises),
                 Track(row)))))

\* the tail shared by add and add_by_uri, from "pl = self.current_playlist"
AppendUnlessPresent(st, u, row, coverRaises) ==
    With(current_playlist(st, u), LAMBDA s1 :
    With(CurrentPos(s1, u), LAMBDA i :
    With(s1.by_user[u][i], LAMBDA pl :
        IF \E k \in 1..Len(pl.tracks) : pl.tracks[k].uri = row.uri
        THEN Return(s1, Track(row))
        ELSE ReturnAfter(
                 refresh_cover([s1 EXCEPT !.by_user[u][i].tracks = Append(@, Track(row))],
                               u, pl.name, coverRaises),
                 Track(row)))))

\* add(user_id, artist, title)
add(st, u, artist, title, coverRaises, ord) ==
    With([ensure_user(st, u) EXCEPT !.db = ensure_db(@)], LAMBDA s1 :
    With(search_by_artist_title(s1.db, artist, title, ord), LAMBDA row :
        IF row = <<>>
        THEN Raise(s1, "Track not found in database.")
        ELSE AppendUnlessPresent(s1, u, row[1], coverRaises)))

\* add_by_uri
add_by_uri(st, u, track_uri, coverRaises, ord) ==
    With([ensure_user(st, u) EXCEPT !.db = ensure_db(@)], LAMBDA s1 :
    With(get_track_by_uri(s1.db, track_uri, ord), LAMBDA row :
        IF row = <<>>
        THEN Raise(s1, "Track URI not found in database.")
        ELSE AppendUnlessPresent(s1, u, row[1], coverRaises)))

\* list.pop(i) that also drops what follows position i: a faulty variant, used
\* to show what RemoveTakesOne rests on
PopAt_cutting(s, i) == Slice(s, 1, i - 1)

\* list.pop(i) for a 1-based position i
PopAt(s, i) == Slice(s, 1, i - 1) \o Slice(s, i + 1, Len(s))

\* the tail of remove, from "track = pl.tracks.pop(..)" for the 1-based position k
PopAndRefresh(s1, u, i, k, coverRaises) ==
    ReturnAfter(refresh_cover([s1 EXCEPT !.by_user[u][i].tracks = PopAt(@, k)],
                              u, s1.by_user[u][i].name, coverRaises),
                s1.by_user[u][i].tracks[k])

\* remove without the test "idx < 0": pop(-1) takes the last entry, and raises
\* on an empty list; a faulty variant, used to show what RemoveRefusals rests on
remove_wrapping(st, u, identifier, coverRaises) ==
    With(current_playlist(st, u), LAMBDA s1 :
    With(CurrentPos(s1, u), LAMBDA i :
    With(s1.by_user[u][i], LAMBDA pl :
    With({k \in 1..Len(pl.tracks) : pl.tracks[k].uri = identifier}, LAMBDA hit :
        IF isdigit(identifier)
        THEN IF ~isdecimal(identifier) THEN Raise(s1, S_ValueError)
             ELSE IF int(identifier) - 1 >= Len(pl.tracks)
             THEN Raise(s1, "Index out of range.")
             ELSE IF int(identifier) - 1 < 0
             THEN IF pl.tracks = <<>> THEN Raise(s1, "pop from empty list")
                  ELSE PopAndRefresh(s1, u, i, Len(pl.tracks), coverRaises)
             ELSE PopAndRefresh(s1, u, i, int(identifier), coverRaises)
        ELSE IF hit = {}
             THEN Raise(s1, "Track not found in current playlist.")
             ELSE PopAndRefresh(s1, u, i, CHOOSE m \in hit : \A n \in hit : m <= n,
                                coverRaises)))))

\* remove(user_id, identifier)
remove(st, u, identifier, coverRaises) ==
    With(current_playlist(st, u), LAMBDA s1 :
    With(CurrentPos(s1, u), LAMBDA i :
    With(s1.by_user[u][i], LAMBDA pl :
    With({k \in 1..Len(pl.tracks) : pl.tracks[k].uri = identifier}, LAMBDA hit :
        IF isdigit(identifier)
        THEN IF ~isdecimal(identifier) THEN Raise(s1, S_ValueError)
             ELSE IF int(identifier) - 1 < 0 \/ int(identifier) - 1 >= Len(pl.tracks)
             THEN Raise(s1, "Index out of range.")
             ELSE PopAndRefresh(s1, u, i, int(identifier), coverRaises)
        ELSE IF hit = {}
             THEN Raise(s1, "Track not found in current playlist.")
             ELSE PopAndRefresh(s1, u, i, CHOOSE m \in hit : \A n \in hit : m <= n,
                                coverRaises)))))

\* serialize_state: reads the store, after _ensure_user
serialize_state(st, u) == ensure_user(st, u)

-----------------------------------------------------------------------------
(* Python re: the patterns of musiccrs.py and qa_system.py, all IGNORECASE.  *)
(* A pattern is a sequence of elements; an element consumes text in the      *)
(* backtracking order of re: alternatives left to right, greedy longest      *)
(* first, lazy shortest first.                                               *)

Lit(x) == [t |-> "lit", alts |-> <<x>>]            \* literal text
Alt(xs) == [t |-> "lit", alts |-> xs]              \* (?:a|b|c)
Opt(xs) == [t |-> "opt", alts |-> xs]              \* (?:a|b)?
Ws1 == [t |-> "ws1", alts |-> <<>>]                \* \s+
Ws0 == [t |-> "ws0", alts |-> <<>>]                \* \s*
Lazy == [t |-> "lazy", alts |-> <<>>]              \* (.+?)
Greedy == [t |-> "greedy", alts |-> <<>>]          \* (.+)
NotColon == [t |-> "notcolon", alts |-> <<>>]      \* ([^:]+)
Digits == [t |-> "digits", alts |-> <<>>]          \* \d+
End == [t |-> "end", alts |-> <<>>]                \* $
TailAlt(ps) == [t |-> "tail", alts |-> <<>>, subs |-> ps]  \* (?:p1|p2) ending a pattern
Quote == Opt(<< <<"'">>, <<"\"">> >>)              \* ['\"]?

Captures(el) == el.t \in {"lazy", "greedy", "notcolon"}

Down(n, m) == [i \in 1..(n - m + 1) |-> n - i + 1]  \* n, n-1, ..., m
Up(m, n) == [i \in 1..(n - m + 1) |-> m + i - 1]    \* m, m+1, ..., n

\* how many characters from position pos on satisfy Ok
Run(s, pos, Ok(_)) ==
    Cardinality({i \in pos..Len(s) : \A j \in pos..i : Ok(s[j])})

MatchingAlts(el, s, pos) ==
    SelectSeq(el.alts, LAMBDA x : MatchAt(lower(s), lower(x), pos))

RECURSIVE MatchFrom(_, _, _, _), TryWays(_, _, _, _, _, _)

\* the lengths the element may consume at pos, in the order re tries them
Ways(el, s, pos) ==
    LET rest == Len(s) - pos + 1
        alts == MatchingAlts(el, s, pos)
        lens == [i \in 1..Len(alts) |-> Len(alts[i])]
    IN  CASE el.t = "lit" -> lens
          [] el.t = "opt" -> lens \o <<0>>
          [] el.t = "ws1" -> Down(Run(s, pos, IsSpace), 1)
          [] el.t = "ws0" -> Down(Run(s, pos, IsSpace), 0)
          [] el.t = "lazy" -> Up(1, rest)
          [] el.t = "greedy" -> Down(rest, 1)
          [] el.t = "notcolon" -> Down(Run(s, pos, LAMBDA c : c # ":"), 1)
          [] el.t = "digits" -> Down(Run(s, pos, LAMBDA c : c \in DigitSet), 1)
          [] el.t = "end" -> IF pos = Len(s) + 1 THEN <<0>> ELSE <<>>
          [] el.t = "tail" ->
                IF \E i \in 1..Len(el.subs) : MatchFrom(el.subs[i], 1, s, pos) # <<>>
                THEN <<0>> ELSE <<>>

\* the ways ws[i..] of element k tried in order: the first whose rest matches
TryWays(re, k, s, pos, ws, i) ==
    IF i > Len(ws) THEN <<>>
    ELSE LET r == MatchFrom(re, k + 1, s, pos + ws[i])
         IN  IF r = <<>> THEN TryWays(re, k, s, pos, ws, i + 1)
             ELSE IF Captures(re[k])
                  THEN << <<Slice(s, pos, pos + ws[i] - 1)>> \o r[1] >>
                  ELSE r

\* <<groups>> for the first way elements k.. of re match s from pos, <<>> if none
MatchFrom(re, k, s, pos) ==
    IF k > Len(re) THEN << <<>> >>
    ELSE TryWays(re, k, s, pos, Ways(re[k], s, pos), 1)

\* pattern.match(s): anchored at the start; <<groups>> or <<>> for None
match(re, s) == MatchFrom(re, 1, s, 1)

RECURSIVE SearchFrom(_, _, _)
SearchFrom(re, s, p) ==
    IF p > Len(s) + 1 THEN <<>>
    ELSE LET r == MatchFrom(re, 1, s, p)
         IN  IF r # <<>> THEN r ELSE SearchFrom(re, s, p + 1)

\* pattern.search(s): the leftmost position where the pattern matches
search(re, s) == SearchFrom(re, s, 1)

-----------------------------------------------------------------------------
(* The external popularity service (spotify_api.py)                         *)
(* st.spotify is [configured, popularity_cache]; ext is what a search of     *)
(* the service would answer now for each (artist, title), 0 when the track   *)
(* is not found or the request fails.                                        *)

MAX_SPOTIFY_CALLS == 5
MpdWeight == 10
InitialLimitFactor == 3
InitialLimitMax == 60

SpotifyKey(row) == <<lower(row.artist), lower(row.title)>>

\* what the service answers for a key: a popularity, or Failed when the
\* request times out, is refused or finds no track (search_track gives None)
Failed == -1

\* the popularity cached for an answer that keeps a failure as it is: a
\* faulty variant, used to show what FailuresCountAsZero rests on
Popularity_failing(answer) == answer

\* the popularity cached for an answer: 0 for a failure
Popularity(answer) == IF answer = Failed THEN 0 ELSE answer

\* Requests that does not remember what it asked: a faulty variant, used to
\* show what LookupsCapped rests on
RECURSIVE Requests_uncached(_, _, _)
Requests_uncached(known, rows, i) ==
    IF i > Len(rows) THEN <<>>
    ELSE IF SpotifyKey(rows[i]) \in known THEN Requests_uncached(known, rows, i + 1)
    ELSE <<SpotifyKey(rows[i])>> \o Requests_uncached(known, rows, i + 1)

\* the keys of rows[i..] that SpotifyAPI.get_track_popularity sends to the
\* service, in order, when the cache holds the keys known: one request for a
\* key that is not cached, which is cached from then on
RECURSIVE Requests(_, _, _)
Requests(known, rows, i) ==
    IF i > Len(rows) THEN <<>>
    ELSE IF SpotifyKey(rows[i]) \in known THEN Requests(known, rows, i + 1)
    ELSE <<SpotifyKey(rows[i])>>
         \o Requests(known \cup {SpotifyKey(rows[i])}, rows, i + 1)

\* SpotifyAPI.get_track_popularity over a list of rows: the cache afterwards
LookedUp(sp, rows, ext) ==
    With(Requests(DOMAIN sp.popularity_cache, rows, 1), LAMBDA sent :
        [sp EXCEPT !.popularity_cache =
            @ @@ [k \in {sent[i] : i \in 1..Len(sent)} |-> Popularity(ext[k])]])

\* QASystem._rank_by_spotify_popularity
rank_by_spotify_popularity(st, results, ext) ==
    IF ~st.spotify.configured THEN Return(st, results)
    ELSE With(LookedUp(st.spotify, results, ext), LAMBDA sp :
            Return([st EXCEPT !.spotify = sp],
                   StableSort(results,
                       LAMBDA r : << <<0 - sp.popularity_cache[SpotifyKey(r)]>> >>)))

\* the candidates the service is asked about: the first MAX_SPOTIFY_CALLS by
\* local popularity
top_by_mpd(d, results) ==
    Take(StableSort(results, LAMBDA r : << <<0 - get_track_popularity(d, r.uri)>> >>),
         MAX_SPOTIFY_CALLS)

\* final_results that counts the cached popularity of every candidate, asked
\* about in this call or not: a faulty variant, used to show what
\* ScoreIsLocalPlusExternal rests on
final_results_cached(s1, sp, results, top) ==
    [i \in 1..Len(results) |->
        [row |-> results[i],
         popularity |->
            get_track_popularity(s1.db, results[i].uri) * MpdWeight
            + (IF SpotifyKey(results[i]) \in DOMAIN sp.popularity_cache
               THEN sp.popularity_cache[SpotifyKey(results[i])] ELSE 0)]]

\* final_results: each candidate with its combined popularity, where sp is the
\* service after the lookups for the candidates top
final_results(s1, sp, results, top) ==
    [i \in 1..Len(results) |->
        [row |-> results[i],
         popularity |->
            get_track_popularity(s1.db, results[i].uri) * MpdWeight
            + (IF /\ s1.spotify.configured
                  /\ \E k \in 1..Len(top) : top[k].uri = results[i].uri
               THEN sp.popularity_cache[SpotifyKey(results[i])] ELSE 0)]]

\* the candidates scored: the lookups for the top candidates, then final_results
ScoreTitleResults(s1, results, ext) ==
    With(top_by_mpd(s1.db, results), LAMBDA top :
    With(IF s1.spotify.configured
         THEN LookedUp(s1.spotify, top, ext) ELSE s1.spotify, LAMBDA sp :
        Return([s1 EXCEPT !.spotify = sp], final_results(s1, sp, results, top))))

\* rank_key without the priority of the artists of the playlist: a faulty
\* variant, used to show what ExistingArtistsFirst rests on
rank_key_by_popularity(existing, x) ==
    << <<0 - x.popularity>>, codes(lower(x.row.artist)), codes(x.row.title) >>

\* rank_key of a scored candidate
rank_key(existing, x) ==
    << <<IF lower(x.row.artist) \in existing THEN 0 ELSE 1>>,
       <<0 - x.popularity>>,
       codes(lower(x.row.artist)),
       codes(x.row.title) >>

\* the ranking step of search_by_title_ranked, for the rows the query gave
RankTitleResults(s1, results, existing, limit, ext) ==
    With(ScoreTitleResults(s1, results, ext), LAMBDA scored :
    With(Take(StableSort(scored.val, LAMBDA x : rank_key(existing, x)), limit),
         LAMBDA ranked :
        Return(scored, [i \in 1..Len(ranked) |-> ranked[i].row])))

\* search_by_title_ranked
search_by_title_ranked(st, title, existing_artists, limit, ord, ext) ==
    With([st EXCEPT !.db = ensure_db(@)], LAMBDA s1 :
    With(search_by_title(s1.db, title,
                         Min(limit * InitialLimitFactor, InitialLimitMax), ord),
         LAMBDA results :
        IF results = <<>> THEN Return(s1, <<>>)
        ELSE RankTitleResults(s1, results,
                 {lower(existing_artists[i]) : i \in 1..Len(existing_artists)},
                 limit, ext)))

TitleSearchLimit == 20

\* PlaylistService.search_tracks_by_title (limit: int = 20)
search_tracks_by_title(st, u, title, ord, ext) ==
    With(current_playlist(st, u), LAMBDA s1 :
        search_by_title_ranked(s1, title,
            [i \in 1..Len(CurrentOf(s1, u).tracks) |-> CurrentOf(s1, u).tracks[i].artist],
            TitleSearchLimit, ord, ext))

-----------------------------------------------------------------------------
(* QASystem (qa_system.py)                                                   *)

P_track_album ==
    << <<Lit(<<"w","h","a","t"," ","a","l","b","u","m"," ","i","s"," ">>), Quote, Lazy, Quote, Ws1, Alt(<<<<"b","y">>, <<"f","r","o","m">>>>), Ws1, Quote, Lazy, Quote, Ws1, Alt(<<<<"o","n">>, <<"f","r","o","m">>, <<"i","n">>>>)>>,
       <<Alt(<<<<"w","h","a","t">>, <<"w","h","i","c","h">>>>), Lit(<<" ","a","l","b","u","m"," ">>), Alt(<<<<"i","s">>, <<"d","o","e","s">>>>), Lit(<<" ">>), Quote, Lazy, Quote, Ws1, Alt(<<<<"b","y">>, <<"f","r","o","m">>>>), Ws1, Quote, Lazy, Quote, Ws1, Opt(<<<<"a","p","p","e","a","r"," ">>>>), Alt(<<<<"o","n">>, <<"i","n">>, <<"f","r","o","m">>>>)>>,
       <<Alt(<<<<"w","h","a","t">>, <<"w","h","i","c","h">>>>), Lit(<<" ","a","l","b","u","m"," ">>), Alt(<<<<"i","s">>, <<"d","o","e","s">>>>), Lit(<<" ">>), Quote, Lazy, Quote, Ws1, Alt(<<<<"b","y">>, <<"f","r","o","m">>>>), Ws1, Quote, Lazy, Quote, End>> >>

P_track_artist ==
    << <<Lit(<<"w","h","o"," ">>), Alt(<<<<"s","i","n","g","s">>, <<"p","e","r","f","o","r","m","s">>, <<"r","e","c","o","r","d","e","d">>, <<"m","a","d","e">>>>), Lit(<<" ">>), Quote, Lazy, Quote>>,
       <<Lit(<<"w","h","o"," ">>), Alt(<<<<"i","s">>, <<"w","a","s">>>>), Lit(<<" ","t","h","e"," ","a","r","t","i","s","t"," ">>), Alt(<<<<"o","f">>, <<"f","o","r">>>>), Lit(<<" ">>), Quote, Lazy, Quote>> >>

P_track_exists ==
    << <<Lit(<<"d","o"," ","y","o","u"," ","h","a","v","e"," ">>), Opt(<<<<"t","h","e"," ","s","o","n","g"," ">>>>), Quote, Lazy, Quote, Ws1, Lit(<<"b","y">>), Ws1, Quote, Lazy, Quote, End>>,
       <<Lit(<<"i","s"," ">>), Quote, Lazy, Quote, Ws1, Lit(<<"b","y">>), Ws1, Quote, Lazy, Quote, Ws1, Lit(<<"i","n"," ">>), Opt(<<<<"t","h","e"," ">>, <<"y","o","u","r"," ">>>>), Alt(<<<<"d","a","t","a","b","a","s","e">>, <<"l","i","b","r","a","r","y">>>>)>> >>

P_track_info ==
    << <<Lit(<<"t","e","l","l"," ","m","e"," ","a","b","o","u","t"," ">>), Opt(<<<<"t","h","e"," ","s","o","n","g"," ">>, <<"t","h","e"," ","t","r","a","c","k"," ">>>>), Quote, Lazy, Quote, Ws1, Lit(<<"b","y">>), Ws1, Quote, Lazy, Quote, End>>,
       <<Alt(<<<<"w","h","a","t">>, <<"g","i","v","e"," ","m","e">>>>), Lit(<<" ">>), Alt(<<<<"i","n","f","o">>, <<"i","n","f","o","r","m","a","t","i","o","n">>>>), Lit(<<" ">>), Alt(<<<<"a","b","o","u","t">>, <<"o","n">>>>), Lit(<<" ">>), Quote, Lazy, Quote, Ws1, Lit(<<"b","y">>), Ws1, Quote, Lazy, Quote, End>> >>

P_artist_track_count ==
    << <<Lit(<<"h","o","w"," ","m","a","n","y"," ">>), Alt(<<<<"s","o","n","g","s">>, <<"t","r","a","c","k","s">>>>), Lit(<<" ">>), Alt(<<<<"b","y">>, <<"f","r","o","m">>>>), Lit(<<" ">>), Quote, Lazy, Quote, TailAlt(<< <<Ws1, Alt(<<<<"h","a","v","e">>, <<"h","a","s">>, <<"a","r","e"," ","t","h","e","r","e">>, <<"i","n">>>>)>>, <<End>> >>)>>,
       <<Lit(<<"h","o","w"," ","m","a","n","y"," ">>), Alt(<<<<"s","o","n","g","s">>, <<"t","r","a","c","k","s">>>>), Lit(<<" ">>), Opt(<<<<"a","r","e"," ","t","h","e","r","e"," ">>>>), Alt(<<<<"b","y">>, <<"f","r","o","m">>>>), Lit(<<" ">>), Quote, Lazy, Quote, End>>,
       <<Lit(<<"h","o","w"," ","m","a","n","y"," ">>), Alt(<<<<"s","o","n","g","s">>, <<"t","r","a","c","k","s">>>>), Lit(<<" ">>), Opt(<<<<"d","o","e","s"," ">>, <<"d","o"," ">>>>), Quote, Lazy, Quote, Lit(<<" ","h","a","v","e">>)>> >>

P_artist_albums ==
    << <<Lit(<<"w","h","a","t"," ","a","l","b","u","m","s"," ">>), Opt(<<<<"d","o","e","s"," ">>, <<"d","i","d"," ">>, <<"h","a","s"," ">>, <<"h","a","v","e"," ">>>>), Quote, Lazy, Quote, Lit(<<" ">>), Alt(<<<<"r","e","l","e","a","s","e">>, <<"m","a","d","e">>, <<"r","e","c","o","r","d","e","d">>, <<"h","a","v","e">>>>)>>,
       <<Alt(<<<<"l","i","s","t">>, <<"s","h","o","w">>, <<"t","e","l","l"," ","m","e">>>>), Lit(<<" ">>), Opt(<<<<"t","h","e"," ">>>>), Lit(<<"a","l","b","u","m","s"," ">>), Alt(<<<<"b","y">>, <<"f","r","o","m">>>>), Lit(<<" ">>), Quote, Lazy, Quote, End>> >>

P_artist_top_tracks ==
    << <<Lit(<<"w","h","a","t"," ","a","r","e"," ">>), Opt(<<<<"t","h","e"," ">>>>), Opt(<<<<"m","o","s","t"," ","p","o","p","u","l","a","r"," ">>, <<"t","o","p"," ">>, <<"b","e","s","t"," ">>>>), Alt(<<<<"s","o","n","g","s">>, <<"t","r","a","c","k","s">>>>), Lit(<<" ">>), Alt(<<<<"b","y">>, <<"f","r","o","m">>>>), Lit(<<" ">>), Quote, Lazy, Quote, End>>,
       <<Lit(<<"s","h","o","w"," ","m","e"," ">>), Opt(<<<<"t","h","e"," ">>>>), Opt(<<<<"m","o","s","t"," ","p","o","p","u","l","a","r"," ">>, <<"t","o","p"," ">>, <<"b","e","s","t"," ">>>>), Alt(<<<<"s","o","n","g","s">>, <<"t","r","a","c","k","s">>>>), Lit(<<" ">>), Alt(<<<<"b","y">>, <<"f","r","o","m">>>>), Lit(<<" ">>), Quote, Lazy, Quote, End>> >>

P_artist_similar ==
    << <<Alt(<<<<"w","h","a","t">>, <<"w","h","i","c","h">>>>), Lit(<<" ","a","r","t","i","s","t","s"," ","a","r","e"," ">>), Alt(<<<<"l","i","k","e">>, <<"s","i","m","i","l","a","r"," ","t","o">>>>), Lit(<<" ">>), Quote, Lazy, Quote, End>>,
       <<Lit(<<"w","h","o"," ">>), Alt(<<<<"s","o","u","n","d","s">>, <<"a","r","e"," ","a","r","t","i","s","t","s">>>>), Lit(<<" ">>), Alt(<<<<"l","i","k","e">>, <<"s","i","m","i","l","a","r"," ","t","o">>>>), Lit(<<" ">>), Quote, Lazy, Quote, End>>,
       <<Alt(<<<<"w","h","a","t"," ","a","r","t","i","s","t","s">>>>), Lit(<<" ">>), Alt(<<<<"a","r","e">>, <<"s","o","u","n","d"," ","l","i","k","e">>, <<"a","r","e"," ","s","i","m","i","l","a","r"," ","t","o">>>>), Lit(<<" ">>), Quote, Lazy, Quote, End>>,
       <<Lit(<<"f","i","n","d"," ">>), Opt(<<<<"m","e"," ">>>>), Opt(<<<<"a","r","t","i","s","t","s"," ">>>>), Alt(<<<<"l","i","k","e">>, <<"s","i","m","i","l","a","r"," ","t","o">>>>), Lit(<<" ">>), Quote, Lazy, Quote, End>> >>

NoContext == [artist |-> NoText, title |-> NoText, action |-> "",
              question_type |-> ""]

\* a textual answer: which sentence (form) and the values put into it
Answer(form, artist, title, album, n) ==
    [type |-> "answer", form |-> form, artist |-> artist, title |-> title,
     album |-> album, n |-> n]
NoAnswer == Answer("", NoText, NoText, NoText, 0)

\* {'type': 'disambiguate', 'question_type': .., 'options': .., 'context': ..}
Disambiguate(qt, options, artist, title, action) ==
    [type |-> "disambiguate", question_type |-> qt, options |-> options,
     context |-> [artist |-> artist, title |-> title, action |-> action,
                  question_type |-> ""]]

QaLimit == 10
ArtistsShown == 5

\* answer_from_selection
answer_from_selection(question_type, row) ==
    CASE question_type = "track_album" ->
            IF row.album # NoText
            THEN Answer("album", row.artist, row.title, row.album, 0)
            ELSE Answer("no_album", row.artist, row.title, NoText, 0)
      [] question_type = "track_info" ->
            IF row.album # NoText
            THEN Answer("info", row.artist, row.title, row.album, 0)
            ELSE Answer("info_no_album", row.artist, row.title, NoText, 0)
      [] question_type = "track_exists" ->
            Answer("exists", row.artist, row.title, NoText, 0)
      [] OTHER -> Answer("unsure", NoText, NoText, NoText, 0)

\* the shape shared by _answer_track_album and _answer_track_info: exact
\* match by get_track_info, then the fuzzy search
AnswerExactThenFuzzy(st, qt, action, artist, title, ord, ext) ==
    With([st EXCEPT !.db = ensure_db(@)], LAMBDA s1 :
    With(get_track_info(s1.db, artist, title, ord), LAMBDA row :
    With(search_by_artist_title_fuzzy(s1.db, artist, title, QaLimit, ord),
         LAMBDA results :
        IF row # <<>> THEN Return(s1, answer_from_selection(qt, row[1]))
        ELSE IF results = <<>>
        THEN Return(s1, Answer("track_not_found", artist, title, NoText, 0))
        ELSE IF Len(results) = 1
        THEN Return(s1, answer_from_selection(qt, results[1]))
        ELSE With(rank_by_spotify_popularity(s1, results, ext), LAMBDA ranked :
                Return(ranked, Disambiguate(qt, ranked.val, artist, title, action))))))

\* _answer_track_album
answer_track_album(st, artist, title, ord, ext) ==
    AnswerExactThenFuzzy(st, "track_album", "answer album question",
                         artist, title, ord, ext)

\* _answer_track_info
answer_track_info(st, artist, title, ord, ext) ==
    AnswerExactThenFuzzy(st, "track_info", "answer track info question",
                         artist, title, ord, ext)

\* _answer_track_exists
answer_track_exists(st, artist, title, ord, ext) ==
    With([st EXCEPT !.db = ensure_db(@)], LAMBDA s1 :
    With(search_by_artist_title(s1.db, artist, title, ord), LAMBDA row :
    With(search_by_artist_title_fuzzy(s1.db, artist, title, QaLimit, ord),
         LAMBDA results :
        IF row # <<>> THEN Return(s1, Answer("exists", artist, title, NoText, 0))
        ELSE IF results = <<>>
        THEN Return(s1, Answer("not_exists", artist, title, NoText, 0))
        ELSE IF Len(results) = 1
        THEN Return(s1, Answer("exists", results[1].artist, results[1].title,
                               NoText, 0))
        ELSE With(rank_by_spotify_popularity(s1, results, ext), LAMBDA ranked :
                Return(ranked, Disambiguate("track_exists", ranked.val, artist,
                                            title, "answer track exists question"))))))

\* _answer_track_artist
answer_track_artist(st, title, ord) ==
    With([st EXCEPT !.db = ensure_db(@)], LAMBDA s1 :
    With(search_by_title(s1.db, title, QaLimit, ord), LAMBDA results :
        IF results = <<>>
        THEN Return(s1, Answer("no_track_named", NoText, title, NoText, 0))
        ELSE IF Len(results) = 1
        THEN Return(s1, Answer("performed_by", results[1].artist, results[1].title,
                               NoText, 0))
        ELSE Return(s1, Answer("multiple_artists", NoText, title, NoText,
                               Len(results)))))

\* count_tracks_by_artist
count_tracks_by_artist(d, artist) ==
    Cardinality({r \in d : lower(r.artist) = lower(artist)})

\* get_albums_by_artist: the distinct albums (their number is what is modelled)
get_albums_by_artist(d, artist) ==
    {r.album : r \in {x \in d : lower(x.artist) = lower(artist) /\ x.album # NoText}}

\* the _answer_artist_* methods: the sentence chosen and the number it reports
answer_artist(st, kind, artist) ==
    With([st EXCEPT !.db = ensure_db(@)], LAMBDA s1 :
    With(count_tracks_by_artist(s1.db, artist), LAMBDA count :
    With(Cardinality(get_albums_by_artist(s1.db, artist)), LAMBDA albums :
        Return(s1,
          CASE kind = "artist_track_count" ->
                 Answer(IF count = 0 THEN "artist_no_tracks" ELSE "artist_track_count",
                        artist, NoText, NoText, count)
            [] kind = "artist_albums" ->
                 Answer(IF albums > 0 THEN "artist_albums"
                        ELSE IF count > 0 THEN "artist_no_album_info"
                        ELSE "artist_unknown", artist, NoText, NoText, albums)
            [] kind = "artist_top_tracks" ->
                 Answer(IF count = 0 THEN "artist_no_tracks" ELSE "artist_top_tracks",
                        artist, NoText, NoText, Min(count, ArtistsShown))
            [] OTHER ->
                 Answer(IF count = 0 THEN "artist_no_tracks" ELSE "artist_similar",
                        artist, NoText, NoText, 0)))))

RECURSIVE FirstMatchFrom(_, _, _)
FirstMatchFrom(patterns, question, i) ==
    IF i > Len(patterns) THEN <<>>
    ELSE LET r == search(patterns[i], question)
         IN  IF r # <<>> THEN r[1] ELSE FirstMatchFrom(patterns, question, i + 1)

\* "for pattern in patterns: match = pattern.search(question); if match:"
FirstMatch(patterns, question) == FirstMatchFrom(patterns, question, 1)

\* _try_track_questions and _try_artist_questions: which question the text is
\* and the stripped groups; the order of the tests is the code's
ParseQuestion(question) ==
    LET q == strip(question)
        g(ps) == FirstMatch(ps, q)
        two(kind, m) == [kind |-> kind, title |-> strip(m[1]), artist |-> strip(m[2])]
        one(kind, m) == [kind |-> kind, title |-> strip(m[1]), artist |-> NoText]
        art(kind, m) == [kind |-> kind, title |-> NoText, artist |-> strip(m[1])]
    IN  IF g(P_track_album) # <<>> THEN two("track_album", g(P_track_album))
        ELSE IF g(P_track_artist) # <<>> THEN one("track_artist", g(P_track_artist))
        ELSE IF g(P_track_exists) # <<>> THEN two("track_exists", g(P_track_exists))
        ELSE IF g(P_track_info) # <<>> THEN two("track_info", g(P_track_info))
        ELSE IF g(P_artist_track_count) # <<>>
        THEN art("artist_track_count", g(P_artist_track_count))
        ELSE IF g(P_artist_albums) # <<>> THEN art("artist_albums", g(P_artist_albums))
        ELSE IF g(P_artist_top_tracks) # <<>>
        THEN art("artist_top_tracks", g(P_artist_top_tracks))
        ELSE IF g(P_artist_similar) # <<>> THEN art("artist_similar", g(P_artist_similar))
        ELSE [kind |-> "none", title |-> NoText, artist |-> NoText]

\* answer_question, given the parse of the question
answer_question(st, pq, ord, ext) ==
    CASE pq.kind = "track_album" -> answer_track_album(st, pq.artist, pq.title, ord, ext)
      [] pq.kind = "track_artist" -> answer_track_artist(st, pq.title, ord)
      [] pq.kind = "track_exists" -> answer_track_exists(st, pq.artist, pq.title, ord, ext)
      [] pq.kind = "track_info" -> answer_track_info(st, pq.artist, pq.title, ord, ext)
      [] pq.kind = "none" -> Return(st, [type |-> "none"])
      [] OTHER -> answer_artist(st, pq.kind, pq.artist)

-----------------------------------------------------------------------------
(* MusicCRS (musiccrs.py): the command patterns and the dispatcher           *)

cmd_add == <<Lit(<<"/","a","d","d">>), Ws1, NotColon, Ws0, Lit(<<":">>), Ws0, Greedy, End>>
cmd_remove == <<Lit(<<"/","r","e","m","o","v","e">>), Ws1, Greedy, End>>
cmd_view == <<Lit(<<"/","v","i","e","w">>), End>>
cmd_clear == <<Lit(<<"/","c","l","e","a","r">>), End>>
cmd_create == <<Lit(<<"/","c","r","e","a","t","e">>), Ws1, Greedy, End>>
cmd_switch == <<Lit(<<"/","s","w","i","t","c","h">>), Ws1, Greedy, End>>
cmd_list == <<Lit(<<"/","l","i","s","t">>), End>>
cmd_ask == <<Lit(<<"/","a","s","k">>), Ws1, Greedy, End>>
cmd_stats == <<Lit(<<"/","s","t","a","t","s">>), End>>
cmd_preview == <<Lit(<<"/","p","r","e","v","i","e","w">>), Ws1, Greedy, End>>
cmd_help == << <<Lit(<<"/","h","e","l","p">>), End>>, <<Lit(<<"/","o","p","t","i","o","n","s">>), End>> >>   \* ^/help$|^/options$
cmd_play == << <<Lit(<<"/","p","l","a","y">>), End>>, <<Lit(<<"/","p","l","a","y">>), Ws1, Digits, End>> >>   \* ^/play(?:\s+(\d+))?$

S_info == <<"/","i","n","f","o">>
S_ask_llm == <<"/","a","s","k","_","l","l","m"," ">>
S_options == <<"/","o","p","t","i","o","n","s">>
S_quit == <<"/","q","u","i","t">>
S_add == <<"/","a","d","d"," ">>
S_by == <<" ","b","y"," ">>
S_dash == <<" ","-"," ">>
S_colon == <<":">>

AnyMatch(patterns, s) == \E i \in 1..Len(patterns) : match(patterns[i], s) # <<>>

RECURSIVE SplitCount(_, _)
\* len(s.split(p)): one more than the non-overlapping occurrences of p
SplitCount(s, p) ==
    IF index(s, p) = 0 THEN 1
    ELSE 1 + SplitCount(Slice(s, index(s, p) + Len(p), Len(s)), p)

\* the /add branch up to "if artist and title": <<artist, title>>, <<>> for None
ParseAdd(t) ==
    LET query == strip(Slice(t, 6, Len(t)))
        m == match(cmd_add, t)
        idx == index(lower(query), S_by)
        dash == index(query, S_dash)
    IN  IF contains(query, S_colon)
        THEN IF m # <<>> THEN <<strip(m[1][1]), strip(m[1][2])>> ELSE <<NoText, NoText>>
        ELSE IF contains(lower(query), S_by)
        THEN IF SplitCount(lower(query), S_by) = 2
             THEN <<strip(Slice(query, idx + 4, Len(query))),
                    strip(Slice(query, 1, idx - 1))>>
             ELSE <<NoText, NoText>>
        ELSE IF contains(query, S_dash)
        THEN <<strip(Slice(query, 1, dash - 1)),
               strip(Slice(query, dash + 3, Len(query)))>>
        ELSE <<NoText, NoText>>

Cmd(c, a, b) == [cmd |-> c, a |-> a, b |-> b,
                 q |-> [kind |-> "none", title |-> NoText, artist |-> NoText]]

\* the dispatcher's tests after the numeric-selection test, in the code's
\* order: which branch takes the stripped text t, and the arguments it parses
Dispatch(t) ==
    LET grp(re) == strip(match(re, t)[1][1])
        at == ParseAdd(t)
    IN  IF startswith(t, S_info) THEN Cmd("info", NoText, NoText)
        ELSE IF startswith(t, S_ask_llm) THEN Cmd("ask_llm", NoText, NoText)
        ELSE IF startswith(t, S_options) THEN Cmd("options", NoText, NoText)
        ELSE IF t = S_quit THEN Cmd("quit", NoText, NoText)
        ELSE IF match(cmd_ask, t) # <<>>
        THEN [Cmd("ask", NoText, NoText) EXCEPT !.q = ParseQuestion(grp(cmd_ask))]
        ELSE IF match(cmd_stats, t) # <<>> THEN Cmd("stats", NoText, NoText)
        ELSE IF AnyMatch(cmd_play, t) THEN Cmd("play", NoText, NoText)
        ELSE IF match(cmd_preview, t) # <<>> THEN Cmd("preview", NoText, NoText)
        ELSE IF startswith(t, S_add)
        THEN IF at[1] # NoText /\ at[2] # NoText
             THEN Cmd("add_artist_title", at[1], at[2])
             ELSE Cmd("add_title", NoText, strip(Slice(t, 6, Len(t))))
        ELSE IF match(cmd_remove, t) # <<>> THEN Cmd("remove", grp(cmd_remove), NoText)
        ELSE IF match(cmd_view, t) # <<>> THEN Cmd("view", NoText, NoText)
        ELSE IF match(cmd_clear, t) # <<>> THEN Cmd("clear", NoText, NoText)
        ELSE IF match(cmd_create, t) # <<>> THEN Cmd("create", grp(cmd_create), NoText)
        ELSE IF match(cmd_switch, t) # <<>> THEN Cmd("switch", grp(cmd_switch), NoText)
        ELSE IF match(cmd_list, t) # <<>> THEN Cmd("list", NoText, NoText)
        ELSE IF AnyMatch(cmd_help, t) THEN Cmd("help", NoText, NoText)
        ELSE Cmd("unknown", NoText, NoText)

\* The utterances of the model

U_0 == <<"0">>   \* '0'
U_1 == <<"1">>   \* '1'
U_2 == <<"2">>   \* '2'
U_3 == <<"3">>   \* '3'
U_01 == <<" ","0","1"," ">>   \* ' 01 '
U_add_hey == <<"/","a","d","d"," ","h","e","y">>   \* '/add hey'
U_add_ab_hey == <<"/","a","d","d"," ","A","b",":"," ","H","e","y">>   \* '/add Ab: Hey'
U_ask_info == <<"/","a","s","k"," ","t","e","l","l"," ","m","e"," ","a","b","o","u","t"," ","y"," ","b","y"," ","b">>   \* '/ask tell me about y by b'
U_ask_album == <<"/","a","s","k"," ","w","h","a","t"," ","a","l","b","u","m"," ","i","s"," ","h","e","y"," ","b","y"," ","b"," ","o","n">>   \* '/ask what album is hey by b on'
U_view == <<"/","v","i","e","w">>   \* '/view'
U_clear == <<"/","c","l","e","a","r">>   \* '/clear'
U_create_a == <<"/","c","r","e","a","t","e"," ","a">>   \* '/create a'
U_switch_a == <<"/","s","w","i","t","c","h"," ","a">>   \* '/switch a'
U_switch_default == <<"/","s","w","i","t","c","h"," ","d","e","f","a","u","l","t">>   \* '/switch default'
U_remove_1 == <<"/","r","e","m","o","v","e"," ","1">>   \* '/remove 1'
U_sup2 == <<Sup2>>
U_add_yo == <<"/","a","d","d"," ","y","o">>   \* '/add yo'
U_add_zz == <<"/","a","d","d"," ","z","z">>   \* '/add zz'
U_add_colon_by == <<"/","a","d","d"," ","a",":"," ","b"," ","b","y"," ","c">>   \* '/add a: b by c'
U_add_by == <<"/","a","d","d"," ","H","e","y"," ","B","y"," ","A","b">>   \* '/add Hey By Ab'
U_add_by_dash == <<"/","a","d","d"," ","y"," ","-"," ","z"," ","b","y"," ","b">>   \* '/add y - z by b'
U_add_dash == <<"/","a","d","d"," ","a","b"," ","-"," ","h","e","y">>   \* '/add ab - hey'
U_add_dash_colon == <<"/","a","d","d"," ","a"," ","-"," ","b",":"," ","c">>   \* '/add a - b: c'
U_add_by_by == <<"/","a","d","d"," ","a"," ","b","y"," ","b"," ","b","y"," ","c">>   \* '/add a by b by c'
U_add_no_artist == <<"/","a","d","d"," "," ",":"," ","h","e","y">>   \* '/add  : hey'
U_add_no_title == <<"/","a","d","d"," ","a","b",":">>   \* '/add ab:'
U_add_zz_qq == <<"/","a","d","d"," ","z","z",":"," ","q","q">>   \* '/add zz: qq'
U_add_b_yo == <<"/","a","d","d"," ","b",":"," ","y","o">>   \* '/add b: yo'
U_add_b_hey == <<"/","a","d","d"," ","b",":"," ","h","e","y">>   \* '/add b: hey'
U_ask_who_hey == <<"/","a","s","k"," ","w","h","o"," ","s","i","n","g","s"," ","h","e","y">>   \* '/ask who sings hey'
U_ask_who_yo == <<"/","a","s","k"," ","w","h","o"," ","s","i","n","g","s"," ","y","o">>   \* '/ask who sings yo'
U_ask_info_exact == <<"/","a","s","k"," ","t","e","l","l"," ","m","e"," ","a","b","o","u","t"," ","h","e","y"," ","b","y"," ","a","b">>   \* '/ask tell me about hey by ab'
U_ask_info_none == <<"/","a","s","k"," ","t","e","l","l"," ","m","e"," ","a","b","o","u","t"," ","z","z"," ","b","y"," ","q","q">>   \* '/ask tell me about zz by qq'
U_ask_info_one == <<"/","a","s","k"," ","t","e","l","l"," ","m","e"," ","a","b","o","u","t"," ","y","o"," ","b","y"," ","b">>   \* '/ask tell me about yo by b'
U_ask_exists == <<"/","a","s","k"," ","d","o"," ","y","o","u"," ","h","a","v","e"," ","h","e","y"," ","b","y"," ","b">>   \* '/ask do you have hey by b'
U_ask_exists_exact == <<"/","a","s","k"," ","d","o"," ","y","o","u"," ","h","a","v","e"," ","h","e","y"," ","b","y"," ","a","b">>   \* '/ask do you have hey by ab'
U_ask_album_exact == <<"/","a","s","k"," ","w","h","a","t"," ","a","l","b","u","m"," ","i","s"," ","y","o"," ","b","y"," ","a","b"," ","o","n">>   \* '/ask what album is yo by ab on'
U_create_default == <<"/","c","r","e","a","t","e"," ","d","e","f","a","u","l","t">>   \* '/create default'
U_11 == <<"1","1">>   \* '11'
U_21 == <<"2","1">>   \* '21'

\* the utterances a user sends in the model
Utterances == {U_0, U_1, U_2, U_3, U_01, U_sup2,
               U_add_hey, U_add_ab_hey, U_ask_info, U_ask_album,
               U_view, U_clear, U_create_a, U_switch_a, U_switch_default,
               U_remove_1}

\* the utterances of the dialogues about add references
AddUtterances == {U_1, U_2, U_add_hey, U_add_ab_hey, U_add_yo, U_add_zz,
                  U_add_colon_by, U_add_by, U_add_by_dash, U_add_dash,
                  U_add_dash_colon, U_add_by_by, U_add_no_artist, U_add_no_title,
                  U_add_zz_qq, U_add_b_yo, U_add_b_hey}

\* the utterances of the dialogues about questions
AskUtterances == {U_1, U_2, U_3, U_add_hey, U_ask_info, U_ask_album,
                  U_ask_who_hey, U_ask_who_yo, U_ask_info_exact, U_ask_info_none,
                  U_ask_info_one, U_ask_exists, U_ask_exists_exact,
                  U_ask_album_exact}

\* the utterances of the dialogues about creating playlists
CreateUtterances == {U_1, U_add_hey, U_create_a, U_create_default,
                     U_switch_default}

\* the utterances of the dialogues over the catalog of many tracks of one title
BigUtterances == {U_1, U_2, U_11, U_21, U_add_hey}

AllUtterances == Utterances \cup AddUtterances \cup AskUtterances
                 \cup CreateUtterances \cup BigUtterances

\* the dispatcher's parse of every utterance of the model, computed once
Parsed == Tabulated([t \in {strip(u) : u \in AllUtterances} |-> Dispatch(t)])

\* self._user_key
USER == "default"

DisplayCap == 10

NoPending == [type |-> "none", options |-> <<>>, context |-> NoContext]

\* a message registered with the dialogue connector: which sentence (kind) and
\* the values put into it
Msg(kind) == [kind |-> kind, err |-> "", uri |-> NoText, name |-> NoText,
              answer |-> NoAnswer, shown |-> <<>>, total |-> 0,
              with_playlist |-> FALSE]

\* _send_text(..., include_playlist=False)
send_text(st, msg) == [st EXCEPT !.replies = Append(@, msg)]

\* _send_playlist_text: the payload is read through serialize_state
send_playlist_text(st, msg) ==
    [serialize_state(st, USER) EXCEPT
        !.replies = Append(@, [msg EXCEPT !.with_playlist = TRUE])]

\* _handle_disambiguation
handle_disambiguation(st, title, results) ==
    send_text([st EXCEPT !.pending =
                   [type |-> "add", options |-> results,
                    context |-> [NoContext EXCEPT !.title = title,
                                                  !.action = "add track"]]],
              [Msg("disambiguation") EXCEPT
                  !.name = title, !.shown = Uris(Take(results, DisplayCap)),
                  !.total = Len(results)])

\* _handle_qa_disambiguation that keeps a selection already pending: a faulty
\* variant, used to show what PendingIsTheLatest rests on
handle_qa_disambiguation_keeping(st, result) ==
    send_text([st EXCEPT !.pending =
                   IF @ # NoPending THEN @
                   ELSE [type |-> "qa", options |-> result.options,
                         context |-> [result.context EXCEPT
                                         !.question_type = result.question_type]]],
              [Msg("qa_disambiguation") EXCEPT
                  !.name = result.context.title,
                  !.shown = Uris(Take(result.options, DisplayCap)),
                  !.total = Len(result.options)])

\* _handle_qa_disambiguation
handle_qa_disambiguation(st, result) ==
    send_text([st EXCEPT !.pending =
                   [type |-> "qa", options |-> result.options,
                    context |-> [result.context EXCEPT
                                    !.question_type = result.question_type]]],
              [Msg("qa_disambiguation") EXCEPT
                  !.name = result.context.title,
                  !.shown = Uris(Take(result.options, DisplayCap)),
                  !.total = Len(result.options)])

\* "except Exception as e: self._send_text(f"Error: {str(e)}")"
Caught(st) ==
    IF st.err = "" THEN st
    ELSE send_text([st EXCEPT !.err = ""], [Msg("error") EXCEPT !.err = st.err])

\* "track = self._ps.add_by_uri(..)" and the confirmation, unless it raised
AddAndConfirm(st, track_uri, coverRaises, ord) ==
    With(add_by_uri(st, USER, track_uri, coverRaises, ord), LAMBDA added :
        IF added.err # "" THEN added
        ELSE send_playlist_text(added, [Msg("added") EXCEPT !.uri = added.val.uri]))

\* _handle_disambiguation_selection reading options[0] for every choice: a
\* faulty variant, used to show what SelectionAppliesToChosen rests on
handle_disambiguation_selection_first(st, choice, coverRaises, ord) ==
    IF st.pending = NoPending
    THEN send_text(st, Msg("no_pending"))
    ELSE IF choice < 1 \/ choice > Len(st.pending.options)
    THEN send_text(st, [Msg("invalid_choice") EXCEPT
                           !.total = Len(st.pending.options)])
    ELSE IF st.pending.type = "qa"
    THEN send_text([st EXCEPT !.pending = NoPending],
                   [Msg("answer") EXCEPT !.answer =
                       answer_from_selection(st.pending.context.question_type,
                                             st.pending.options[1])])
    ELSE Caught(AddAndConfirm([st EXCEPT !.pending = NoPending],
                              st.pending.options[1].uri, coverRaises, ord))

\* _handle_disambiguation_selection whose question branch does not return, so
\* that the add branch runs after it: a faulty variant, used to show what
\* OneContinuation rests on
handle_disambiguation_selection_both(st, choice, coverRaises, ord) ==
    IF st.pending = NoPending
    THEN send_text(st, Msg("no_pending"))
    ELSE IF choice < 1 \/ choice > Len(st.pending.options)
    THEN send_text(st, [Msg("invalid_choice") EXCEPT
                           !.total = Len(st.pending.options)])
    ELSE With(IF st.pending.type = "qa"
              THEN send_text([st EXCEPT !.pending = NoPending],
                             [Msg("answer") EXCEPT !.answer =
                                 answer_from_selection(
                                     st.pending.context.question_type,
                                     st.pending.options[choice])])
              ELSE [st EXCEPT !.pending = NoPending], LAMBDA s1 :
             Caught(AddAndConfirm(s1, st.pending.options[choice].uri,
                                  coverRaises, ord)))

\* _handle_disambiguation_selection
handle_disambiguation_selection(st, choice, coverRaises, ord) ==
    IF st.pending = NoPending
    THEN send_text(st, Msg("no_pending"))
    ELSE IF choice < 1 \/ choice > Len(st.pending.options)
    THEN send_text(st, [Msg("invalid_choice") EXCEPT
                           !.total = Len(st.pending.options)])
    ELSE IF st.pending.type = "qa"
    THEN send_text([st EXCEPT !.pending = NoPending],
                   [Msg("answer") EXCEPT !.answer =
                       answer_from_selection(st.pending.context.question_type,
                                             st.pending.options[choice])])
    ELSE Caught(AddAndConfirm([st EXCEPT !.pending = NoPending],
                              st.pending.options[choice].uri, coverRaises, ord))

\* the /ask branch of receive_utterance
HandleAsk(st, pq, ord, ext) ==
    With(answer_question(st, pq, ord, ext), LAMBDA r :
        IF r.val.type = "none" THEN send_text(r, Msg("qa_not_understood"))
        ELSE IF r.val.type = "disambiguate" THEN handle_qa_disambiguation(r, r.val)
        ELSE send_text(r, [Msg("answer") EXCEPT !.answer = r.val]))

\* the /add branch with artist and title parsed: the import of get_track from
\* playlist_db raises ImportError (playlist_db defines no get_track), so the
\* exact and fuzzy lookups that follow it are never reached
HandleAddArtistTitle(st, artist, title) ==
    Raise(st, "cannot import name 'get_track'")

\* the /add branch for a title alone that adds the first result whenever
\* there is one: a faulty variant, used to show what TitleOnlyAddByCount rests on
HandleAddTitle_first(st, title, coverRaises, ord, ext) ==
    With(search_tracks_by_title(st, USER, title, ord, ext), LAMBDA r :
        IF r.val = <<>>
        THEN send_text(r, [Msg("not_found_title") EXCEPT !.name = title])
        ELSE AddAndConfirm(r, r.val[1].uri, coverRaises, ord))

\* the /add branch for a title alone that asks the user to choose whenever
\* there is a result: a faulty variant, used to show what PendingNeedsTwo rests on
HandleAddTitle_asking(st, title, coverRaises, ord, ext) ==
    With(search_tracks_by_title(st, USER, title, ord, ext), LAMBDA r :
        IF r.val = <<>>
        THEN send_text(r, [Msg("not_found_title") EXCEPT !.name = title])
        ELSE handle_disambiguation(r, title, r.val))

\* the /add branch for a title alone
HandleAddTitle(st, title, coverRaises, ord, ext) ==
    With(search_tracks_by_title(st, USER, title, ord, ext), LAMBDA r :
        IF r.val = <<>>
        THEN send_text(r, [Msg("not_found_title") EXCEPT !.name = title])
        ELSE IF Len(r.val) = 1
        THEN AddAndConfirm(r, r.val[1].uri, coverRaises, ord)
        ELSE handle_disambiguation(r, title, r.val))

\* a playlist command: the service call, then the confirmation unless it raised
Confirm(r, msg) == IF r.err # "" THEN r ELSE send_playlist_text(r, msg)

\* the /remove branch
HandleRemove(st, ident, coverRaises) ==
    With(remove(st, USER, ident, coverRaises), LAMBDA removed :
        Confirm(removed, [Msg("removed") EXCEPT !.uri = removed.val.uri]))

\* the tests of the try block of receive_utterance after the numeric one, for
\* the stripped text t
HandleCommand(st, t, c, coverRaises, ord, ext) ==
    CASE c.cmd = "ask" -> HandleAsk(st, c.q, ord, ext)
      [] c.cmd = "add_artist_title" -> HandleAddArtistTitle(st, c.a, c.b)
      [] c.cmd = "add_title" -> HandleAddTitle(st, c.b, coverRaises, ord, ext)
      [] c.cmd = "remove" -> HandleRemove(st, c.a, coverRaises)
      [] c.cmd = "view" ->
           send_playlist_text(current_playlist(st, USER), Msg("view"))
      [] c.cmd = "clear" ->
           Confirm(clear(st, USER, NoText, coverRaises), Msg("cleared"))
      [] c.cmd = "create" ->
           Confirm(create_playlist(st, USER, c.a, coverRaises),
                   [Msg("created") EXCEPT !.name = c.a])
      [] c.cmd = "switch" ->
           Confirm(switch_playlist(st, USER, c.a, coverRaises),
                   [Msg("switched") EXCEPT !.name = c.a])
      [] c.cmd = "list" ->
           send_playlist_text(list_playlists(st, USER), Msg("list"))
      [] c.cmd \in {"help", "stats"} ->
           send_playlist_text(current_playlist(st, USER), Msg(c.cmd))
      [] c.cmd = "play" -> send_text(current_playlist(st, USER), Msg("play"))
      [] OTHER -> send_text(st, Msg(c.cmd))

\* the try block without its first test (the numeric one): a faulty variant,
\* used to show what DigitsGoToSelection rests on
Handle_commands_only(st, t, coverRaises, ord, ext) ==
    HandleCommand(st, t, Parsed[t], coverRaises, ord, ext)

\* the body of the try block of receive_utterance for the stripped text t
Handle(st, t, coverRaises, ord, ext) ==
    IF st.pending # NoPending /\ isdigit(t)
    THEN IF isdecimal(t)
         THEN handle_disambiguation_selection(st, int(t), coverRaises, ord)
         ELSE Raise(st, S_ValueError)
    ELSE HandleCommand(st, t, Parsed[t], coverRaises, ord, ext)

\* receive_utterance
receive_utterance(st, utterance, coverRaises, ord, ext) ==
    With(strip(utterance), LAMBDA t :
        IF t = <<>> THEN st ELSE Caught(Handle(st, t, coverRaises, ord, ext)))

-----------------------------------------------------------------------------
(* The state machine: one step per utterance the platform delivers, and one  *)
(* per direct call of PlaylistService.add.                                   *)

\* the (artist, title) pairs PlaylistService.add is called with
AddInputs == { <<T1.artist, T1.title>>, <<lower(T2.artist), lower(T2.title)>>,
               <<T2.artist, T3.title>> }

\* the store the operations act on, from the variables
Store == [db |-> db, by_user |-> by_user, current |-> current,
          spotify |-> spotify, pending |-> pending, replies |-> <<>>,
          faults |-> coverFaults, err |-> "", val |-> <<>>]

\* the variables after an operation left the store r
Becomes(r) ==
    /\ db' = r.db
    /\ by_user' = r.by_user
    /\ current' = r.current
    /\ spotify' = r.spotify
    /\ pending' = r.pending
    /\ replies' = r.replies
    /\ coverFaults' = r.faults

\* the service is not reachable from here: every lookup answers 0
NoExt == <<>>

Init ==
    /\ db \in {{}, Catalog}
    /\ by_user = <<>>
    /\ current = <<>>
    /\ pending = NoPending
    /\ text = <<>>
    /\ replies = <<>>
    /\ spotify = [configured |-> FALSE, popularity_cache |-> <<>>]
    /\ coverFaults = 0

\* whether the handler of u can reach _refresh_cover, and a catalog query
\* that can match several rows
Renders(u) ==
    \/ isdigit(strip(u)) /\ pending.type = "add"
    \/ Parsed[strip(u)].cmd \in {"add_title", "remove", "clear", "create", "switch"}
Queries(u) == Parsed[strip(u)].cmd \in {"add_title", "ask"}

\* the outcomes of the cover renderer and the row orders a step is taken with
CoverOutcomes(renders) ==
    IF renders /\ coverFaults < MaxCoverFaults THEN BOOLEAN ELSE {FALSE}
OrderOutcomes(queries) ==
    IF queries THEN CatalogOrders ELSE {CHOOSE o \in CatalogOrders : TRUE}

\* MusicCRS.receive_utterance(utterance)
Receive(u) ==
    \E coverRaises \in CoverOutcomes(Renders(u)), ord \in OrderOutcomes(Queries(u)) :
        \E r \in {receive_utterance(Store, u, coverRaises, ord, NoExt)} :
            /\ text' = strip(u)
            /\ Becomes(r)

\* PlaylistService.add(user, artist, title), called directly
Add(artist, title) ==
    \E coverRaises \in CoverOutcomes(TRUE), ord \in OrderOutcomes(FALSE) :
        \E r \in {add(Store, USER, artist, title, coverRaises, ord)} :
            /\ text' = <<>>
            /\ Becomes([r EXCEPT !.replies = <<>>])

Next ==
    \/ \E u \in Utterances : Receive(u)
    \/ \E a \in AddInputs : Add(a[1], a[2])

Spec == Init /\ [][Next]_vars

\* the dialogues about add references: every step is an utterance of them
NextAdd == \E u \in AddUtterances : Receive(u)
SpecAdd == Init /\ [][NextAdd]_vars

\* the dialogues about questions
NextAsk == \E u \in AskUtterances : Receive(u)
SpecAsk == Init /\ [][NextAsk]_vars

\* the dialogues in which references and questions have no, one or several
\* candidates
PendingUtterances == {U_1, U_add_hey, U_add_yo, U_add_zz, U_ask_info,
                      U_ask_info_one, U_ask_info_none, U_ask_info_exact}
NextPending == \E u \in PendingUtterances : Receive(u)
SpecPending == Init /\ [][NextPending]_vars

\* the dialogues about creating playlists
NextCreate == \E u \in CreateUtterances : Receive(u)
SpecCreate == Init /\ [][NextCreate]_vars

\* a catalog where one title is shared by more tracks than the title search
\* asks for: one track titled Hey for each of these artists
BigArtists == <<"a", "b", "c", "d", "e", "f", "g", "h", "i", "j", "k", "l", "m", "n", "o", "p", "q", "r", "s", "t", "u">>
BigTrack(c) == [uri |-> <<"b", c>>, artist |-> <<c>>, title |-> <<"H","e","y">>,
                album |-> NoText]
BigCatalog == {BigTrack(BigArtists[i]) : i \in 1..Len(BigArtists)}

\* the row orders of that catalog: by ascending and by descending uri
BigOrders ==
    {[i \in 1..Len(BigArtists) |-> BigTrack(BigArtists[i]).uri],
     [i \in 1..Len(BigArtists) |->
         BigTrack(BigArtists[Len(BigArtists) + 1 - i]).uri]}

MaxBigTracks == 3

InitBig ==
    /\ db = BigCatalog
    /\ by_user = <<>>
    /\ current = <<>>
    /\ pending = NoPending
    /\ text = <<>>
    /\ replies = <<>>
    /\ spotify = [configured |-> FALSE, popularity_cache |-> <<>>]
    /\ coverFaults = 0

\* MusicCRS.receive_utterance(utterance) over that catalog, while the current
\* playlist is short
ReceiveBig(u) ==
    /\ USER \in DOMAIN by_user => Len(CurrentOf(Store, USER).tracks) < MaxBigTracks
    /\ \E coverRaises \in CoverOutcomes(Renders(u)), ord \in BigOrders :
          \E r \in {receive_utterance(Store, u, coverRaises, ord, NoExt)} :
              /\ text' = strip(u)
              /\ Becomes(r)

\* the dialogues about a title shared by many tracks
NextBig == \E u \in BigUtterances : ReceiveBig(u)
SpecBig == InitBig /\ [][NextBig]_vars

\* direct calls of the PlaylistService operations, and the arguments they are
\* called with: names of playlists (<<>> for no name), identifiers to remove
\* (positions, track identifiers, one that is neither), track identifiers
ServiceNames == {S_default, <<"a">>}
RemoveIdentifiers == {<<"0">>, <<"1">>, <<"2">>, <<"3">>, <<Sup2>>, T1.uri, T3.uri,
                      <<"z">>}
ServiceUris == {T1.uri, T2.uri, T3.uri}

\* what the caller of an operation gets: the exception raised, or the value
Called(op, arg, r) ==
    [kind |-> "called", op |-> op, arg |-> arg, err |-> r.err,
     val |-> IF r.err = "" THEN r.val ELSE <<>>]

\* a direct call that left the store r
ServiceCall(op, arg, r) ==
    /\ text' = <<>>
    /\ Becomes([r EXCEPT !.replies = <<Called(op, arg, r)>>])

CreateCall(name) ==
    \E coverRaises \in CoverOutcomes(TRUE) :
        \E r \in {create_playlist(Store, USER, name, coverRaises)} :
            ServiceCall("create", name, r)

SwitchCall(name) ==
    \E coverRaises \in CoverOutcomes(TRUE) :
        \E r \in {switch_playlist(Store, USER, name, coverRaises)} :
            ServiceCall("switch", name, r)

ClearCall(name) ==
    \E coverRaises \in CoverOutcomes(TRUE) :
        \E r \in {clear(Store, USER, name, coverRaises)} :
            ServiceCall("clear", name, r)

ListCall ==
    \E r \in {list_playlists(Store, USER)} : ServiceCall("list", NoText, r)

\* the tracks the user's playlists hold, all together
RECURSIVE TracksHeld(_)
TracksHeld(pls) ==
    IF pls = <<>> THEN 0 ELSE Len(pls[1].tracks) + TracksHeld(Tail(pls))

MaxServiceTracks == 3

AddByUriCall(track_uri) ==
    /\ USER \in DOMAIN by_user => TracksHeld(by_user[USER]) < MaxServiceTracks
    /\ \E coverRaises \in CoverOutcomes(TRUE), ord \in OrderOutcomes(FALSE) :
          \E r \in {add_by_uri(Store, USER, track_uri, coverRaises, ord)} :
              ServiceCall("add_by_uri", track_uri, r)

RemoveCall(identifier) ==
    \E coverRaises \in CoverOutcomes(TRUE) :
        \E r \in {remove(Store, USER, identifier, coverRaises)} :
            ServiceCall("remove", identifier, r)

NextService ==
    \/ \E name \in ServiceNames : CreateCall(name)
    \/ \E name \in ServiceNames : SwitchCall(name)
    \/ \E name \in ServiceNames \cup {NoText} : ClearCall(name)
    \/ ListCall
    \/ \E track_uri \in ServiceUris : AddByUriCall(track_uri)
    \/ \E identifier \in RemoveIdentifiers : RemoveCall(identifier)

SpecService == Init /\ [][NextService]_vars

\* direct calls over more names and one track: the order of the playlists
ListNames == {S_default, <<"a">>, <<"b">>}

NextNames ==
    \/ \E name \in ListNames : CreateCall(name)
    \/ \E name \in ListNames : SwitchCall(name)
    \/ ClearCall(NoText)
    \/ ListCall
    \/ AddByUriCall(T1.uri)
    \/ RemoveCall(<<"1">>)

SpecNames == Init /\ [][NextNames]_vars

\* direct calls of search_by_title over catalogs of titles that are equal in
\* some case, that extend one another, or that differ in one character
H1 == [uri |-> <<"s","1">>, artist |-> <<"A">>, title |-> <<"H","e","y">>,
       album |-> NoText]
H2 == [uri |-> <<"s","2">>, artist |-> <<"B">>, title |-> <<"H","E","Y">>,
       album |-> NoText]
H3 == [uri |-> <<"s","3">>, artist |-> <<"C">>, title |-> <<"H","e","y","o">>,
       album |-> NoText]
H4 == [uri |-> <<"s","4">>, artist |-> <<"D">>, title |-> <<"H","e","y","!">>,
       album |-> NoText]
H5 == [uri |-> <<"s","5">>, artist |-> <<"E">>, title |-> <<"H","a","y">>,
       album |-> NoText]
SearchCatalog == {H1, H2, H3, H4, H5}

\* the row orders of a catalog d of them: by ascending and by descending uri
SearchOrders(d) ==
    {SelectSeq(o, LAMBDA u : \E r \in d : r.uri = u) :
        o \in {<<H1.uri, H2.uri, H3.uri, H4.uri, H5.uri>>,
                <<H5.uri, H4.uri, H3.uri, H2.uri, H1.uri>>}}

\* the titles and the limits the search is called with
SearchTitles == {<<"h","e","y">>, <<" ","H","E","Y"," ">>, <<"h">>, <<"h","_","y">>,
                 <<"%">>, <<"h","e","y","o">>, <<"z","z">>}
SearchLimits == {1, 2, 10}

InitSearch ==
    /\ db \in SUBSET SearchCatalog \ {{}}
    /\ by_user = <<>>
    /\ current = <<>>
    /\ pending = NoPending
    /\ text = <<>>
    /\ replies = <<>>
    /\ spotify = [configured |-> FALSE, popularity_cache |-> <<>>]
    /\ coverFaults = 0

SearchCall(title, limit) ==
    \E ord \in SearchOrders(db) :
        \E r \in {Return([Store EXCEPT !.db = ensure_db(@)],
                          search_by_title(ensure_db(db), title, limit, ord))} :
            ServiceCall("search_by_title", [title |-> title, limit |-> limit], r)

NextSearch == \E title \in SearchTitles, limit \in SearchLimits : SearchCall(title, limit)
SpecSearch == InitSearch /\ [][NextSearch]_vars

\* direct calls of search_by_artist_title_fuzzy over catalogs whose artists
\* and titles equal, contain or miss the queries
F1 == [uri |-> <<"f","1">>, artist |-> <<"A","b">>, title |-> <<"H","e","y">>,
       album |-> NoText]
F2 == [uri |-> <<"f","2">>, artist |-> <<"A","B">>, title |-> <<"H","e","y","o">>,
       album |-> NoText]
F3 == [uri |-> <<"f","3">>, artist |-> <<"A","b","c">>, title |-> <<"H","e","y">>,
       album |-> NoText]
F4 == [uri |-> <<"f","4">>, artist |-> <<"C","a","b">>, title |-> <<"O","h","e","y">>,
       album |-> NoText]
F5 == [uri |-> <<"f","5">>, artist |-> <<"Z","z">>, title |-> <<"H","e","y">>,
       album |-> NoText]
F6 == [uri |-> <<"f","6">>, artist |-> <<"A","b">>, title |-> <<"Y","o">>,
       album |-> NoText]
FuzzyCatalog == {F1, F2, F3, F4, F5, F6}

\* the row orders of a catalog d of them: by ascending and by descending uri
FuzzyOrders(d) ==
    {SelectSeq(o, LAMBDA u : \E r \in d : r.uri = u) :
        o \in {<<F1.uri, F2.uri, F3.uri, F4.uri, F5.uri, F6.uri>>,
                <<F6.uri, F5.uri, F4.uri, F3.uri, F2.uri, F1.uri>>}}

\* the artists, the titles and the limits the search is called with
FuzzyArtists == {<<"a","b">>, <<" ","A","B"," ">>, <<"b">>, <<"_","b">>, <<>>, <<"q">>}
FuzzyTitles == {<<"h","e","y">>, <<"h">>, <<"e","y">>, <<"%">>, <<" ">>}
FuzzyLimits == {1, 10}

\* the catalogs: all the tracks, or all but one
InitFuzzy ==
    /\ db \in {FuzzyCatalog} \cup {FuzzyCatalog \ {r} : r \in FuzzyCatalog}
    /\ by_user = <<>>
    /\ current = <<>>
    /\ pending = NoPending
    /\ text = <<>>
    /\ replies = <<>>
    /\ spotify = [configured |-> FALSE, popularity_cache |-> <<>>]
    /\ coverFaults = 0

FuzzyCall(artist, title, limit) ==
    \E ord \in FuzzyOrders(db) :
        \E r \in {Return([Store EXCEPT !.db = ensure_db(@)],
                          search_by_artist_title_fuzzy(ensure_db(db), artist, title,
                                                       limit, ord))} :
            ServiceCall("search_by_artist_title_fuzzy",
                        [artist |-> artist, title |-> title, limit |-> limit], r)

NextFuzzy ==
    \E artist \in FuzzyArtists, title \in FuzzyTitles, limit \in FuzzyLimits :
        FuzzyCall(artist, title, limit)
SpecFuzzy == InitFuzzy /\ [][NextFuzzy]_vars

\* build_from_mpd_folder: INSERT OR IGNORE of the items of the corpus in order,
\* a row per track identifier (the primary key)
RECURSIVE build_from_mpd_folder(_, _)
build_from_mpd_folder(d, items) ==
    IF items = <<>> THEN d
    ELSE build_from_mpd_folder(
             IF \E r \in d : r.uri = Head(items).uri THEN d ELSE d \cup {Head(items)},
             Tail(items))

\* direct calls of the title ranking over catalogs built from corpora in which
\* tracks of one title occur once or several times; R2 and R3 are one song on
\* two albums, R4 and R7 are by one artist written in two ways
R1 == [uri |-> <<"r","1">>, artist |-> <<"A","b">>, title |-> <<"H","e","y">>,
       album |-> NoText]
R2 == [uri |-> <<"r","2">>, artist |-> <<"B","c">>, title |-> <<"H","e","y">>,
       album |-> NoText]
R3 == [uri |-> <<"r","3">>, artist |-> <<"B","c">>, title |-> <<"H","e","y">>,
       album |-> <<"X">>]
R4 == [uri |-> <<"r","4">>, artist |-> <<"C","d">>, title |-> <<"H","e","y">>,
       album |-> NoText]
R5 == [uri |-> <<"r","5">>, artist |-> <<"D","e">>, title |-> <<"H","e","y">>,
       album |-> NoText]
R6 == [uri |-> <<"r","6">>, artist |-> <<"E","f">>, title |-> <<"H","e","y">>,
       album |-> NoText]
R7 == [uri |-> <<"r","7">>, artist |-> <<"c","D">>, title |-> <<"H","e","y","o">>,
       album |-> NoText]
RankCatalog == {R1, R2, R3, R4, R5, R6, R7}

\* the corpora: every track once; track R2 three times; three tracks only
RankCorpora == {<<R1, R2, R3, R4, R5, R6, R7>>,
                <<R2, R1, R2, R3, R4, R5, R6, R7, R2>>,
                <<R1, R2, R2, R4>>}

\* the row orders of a catalog d of them: by ascending and by descending uri
RankOrders(d) ==
    {SelectSeq(o, LAMBDA u : \E r \in d : r.uri = u) :
        o \in {<<R1.uri, R2.uri, R3.uri, R4.uri, R5.uri, R6.uri, R7.uri>>,
                <<R7.uri, R6.uri, R5.uri, R4.uri, R3.uri, R2.uri, R1.uri>>}}

\* what the service answers: a popularity for every key; or a popularity, 0
\* or a failure
RankKeys == {SpotifyKey(r) : r \in RankCatalog}
ExtAll == [k \in RankKeys |->
              CASE k = SpotifyKey(R1) -> 10 [] k = SpotifyKey(R2) -> 20
                [] k = SpotifyKey(R4) -> 30 [] k = SpotifyKey(R5) -> 40
                [] k = SpotifyKey(R6) -> 50 [] OTHER -> 60]
ExtSome == [k \in RankKeys |->
              CASE k = SpotifyKey(R1) -> 50 [] k = SpotifyKey(R4) -> 0
                [] k = SpotifyKey(R6) -> 5 [] OTHER -> Failed]
RankExts == {ExtAll, ExtSome}

RankTitles == {<<"h","e","y">>, <<"z","z">>}
MaxRankTracks == 1

InitRank ==
    /\ db = {}
    /\ by_user = <<>>
    /\ current = <<>>
    /\ pending = NoPending
    /\ text = <<>>
    /\ replies = <<>>
    /\ spotify \in {[configured |-> c, popularity_cache |-> <<>>] : c \in BOOLEAN}
    /\ coverFaults = 0

\* the store r with the value returned put in a list: the values recorded for
\* the calls of this specification are all lists
Listed(r) == IF r.err = "" THEN Return(r, <<r.val>>) ELSE r

\* the build step run on the empty table; it returns the number of items
BuildCall(items) ==
    /\ db = {}
    /\ \E r \in {Return([Store EXCEPT !.db = build_from_mpd_folder(@, items)],
                         Len(items))} :
          ServiceCall("build_from_mpd_folder", items, Listed(r))

\* PlaylistService.add_by_uri on the built catalog, the renderer answering
RankAddCall(track_uri) ==
    /\ db # {}
    /\ USER \in DOMAIN by_user => TracksHeld(by_user[USER]) < MaxRankTracks
    /\ \E ord \in RankOrders(db) :
          \E r \in {add_by_uri(Store, USER, track_uri, FALSE, ord)} :
              ServiceCall("add_by_uri", track_uri, Listed(r))

\* PlaylistService.search_tracks_by_title on the built catalog
RankCall(title, ext) ==
    /\ db # {}
    /\ \E ord \in RankOrders(db) :
          \E r \in {search_tracks_by_title(Store, USER, title, ord, ext)} :
              ServiceCall("search_tracks_by_title",
                          [title |-> title, ext |-> ext, ord |-> ord], r)

\* search_by_title_ranked up to final_results: the candidates with their
\* combined popularity
ScoreCall(title, ext) ==
    /\ db # {}
    /\ \E ord \in RankOrders(db) :
          \E r \in {ScoreTitleResults(Store,
                         search_by_title(db, title,
                             Min(TitleSearchLimit * InitialLimitFactor, InitialLimitMax),
                             ord),
                         ext)} :
              ServiceCall("final_results",
                          [title |-> title, ext |-> ext, ord |-> ord], r)

\* QASystem._rank_by_spotify_popularity on the results of the fuzzy search
QaRankCall(artist, title, ext) ==
    /\ db # {}
    /\ \E ord \in RankOrders(db) :
          With(search_by_artist_title_fuzzy(db, artist, title, QaLimit, ord),
               LAMBDA results :
              \E r \in {rank_by_spotify_popularity(Store, results, ext)} :
                  ServiceCall("rank_by_spotify_popularity",
                              [results |-> results, ext |-> ext], r))

NextRank ==
    \/ \E items \in RankCorpora : BuildCall(items)
    \/ RankAddCall(R7.uri)
    \/ \E title \in RankTitles, ext \in RankExts : RankCall(title, ext)
    \/ \E ext \in RankExts : ScoreCall(<<"h","e","y">>, ext)
    \/ \E ext \in RankExts : QaRankCall(<<"c">>, <<"h","e","y">>, ext)

SpecRank == InitRank /\ [][NextRank]_vars

-----------------------------------------------------------------------------
(* Properties of the dialogue and of the playlists. A step that handles an   *)
(* utterance leaves its stripped text in text and the messages it sent in    *)
(* replies; a direct call of add leaves both empty.                          *)

InSeq(x, s) == \E i \in 1..Len(s) : s[i] = x

\* the track identifiers of the agent's current playlist
CurrentTracks(bu, cur) == Uris(bu[USER][Pos(bu[USER], cur[USER])].tracks)

\* the step sent one message, of one of the kinds
Replied(rs, kinds) == Len(rs) = 1 /\ rs[1].kind \in kinds

\* a step that handles digits while a selection is pending, and the number
Selecting == pending # NoPending /\ isdigit(text')
Choice == int(text')
InRange == Selecting /\ isdecimal(text') /\ Choice \in 1..Len(pending.options)
OutOfRange == Selecting /\ isdecimal(text') /\ Choice \notin 1..Len(pending.options)

\* the sentences a question type is answered with
FormsOf(question_type) ==
    CASE question_type = "track_album" -> {"album", "no_album"}
      [] question_type = "track_info" -> {"info", "info_no_album"}
      [] question_type = "track_exists" -> {"exists"}
      [] OTHER -> {}

\* the answer is about the track of the row, in a sentence of the question type
AnswersAbout(a, question_type, row) ==
    /\ a.form \in FormsOf(question_type)
    /\ a.artist = row.artist
    /\ a.title = row.title
    /\ question_type \in {"track_album", "track_info"} => a.album = row.album

\* the messages the branch of a command sends when it does not raise
OrdinaryReplies(cmd) ==
    CASE cmd = "ask" -> {"answer", "qa_disambiguation", "qa_not_understood"}
      [] cmd = "add_title" -> {"added", "disambiguation", "not_found_title"}
      [] cmd = "add_artist_title" -> {"added", "disambiguation", "not_found"}
      [] cmd = "remove" -> {"removed"}
      [] cmd = "clear" -> {"cleared"}
      [] cmd = "create" -> {"created"}
      [] cmd = "switch" -> {"switched"}
      [] OTHER -> {cmd}

\* C1: while a selection over N candidates is pending, digits whose number is
\* outside 1..N are answered with the invalid-choice error, no continuation
\* runs (the playlists stay as they are), and the pending selection is cleared.
OutOfRangeClears ==
    [][OutOfRange =>
          /\ Replied(replies', {"invalid_choice"})
          /\ by_user' = by_user
          /\ current' = current
          /\ pending' = NoPending]_vars

\* C2: while a selection is pending, a command that is not digits abandons it:
\* after the step nothing is pending, unless the command itself started a new
\* selection (so that digits sent later find no selection of the old list).
OtherCommandAbandons ==
    [][(pending # NoPending /\ text' # <<>> /\ ~isdigit(text')) =>
          \/ pending' = NoPending
          \/ Replied(replies', {"disambiguation", "qa_disambiguation"})]_vars

\* C3: while a selection over N candidates is pending, digits whose number k is
\* in 1..N clear the pending selection and apply its continuation to the k-th
\* candidate: for an add, that candidate's track is in the current playlist
\* afterwards; for a question, the answer is about that candidate, in a
\* sentence of the question type stored with the selection.
SelectionAppliesToChosen ==
    [][InRange =>
          /\ pending' = NoPending
          /\ pending.type = "add" =>
                InSeq(pending.options[Choice].uri,
                      CurrentTracks(by_user', current'))
          /\ pending.type = "qa" =>
                /\ Replied(replies', {"answer"})
                /\ AnswersAbout(replies'[1].answer,
                                pending.context.question_type,
                                pending.options[Choice])]_vars

\* the second candidate of an add selection was chosen and added
SecondCandidateAdded ==
    /\ isdecimal(text) /\ int(text) = 2
    /\ Replied(replies, {"added"})
    /\ pending = NoPending
    /\ InSeq(replies[1].uri, CurrentTracks(by_user, current))
    /\ replies[1].uri = T2.uri

\* C4: a selection runs exactly one continuation: a question selection sends
\* the answer and changes no playlist and not the current playlist; an add
\* selection adds the track and sends no answer.
OneContinuation ==
    [][InRange =>
          /\ pending.type = "qa" =>
                /\ Replied(replies', {"answer"})
                /\ by_user' = by_user
                /\ current' = current
          /\ pending.type = "add" =>
                /\ Replied(replies', {"added", "error"})
                /\ replies'[1].answer = NoAnswer
                /\ InSeq(pending.options[Choice].uri,
                         CurrentTracks(by_user', current'))]_vars

\* a question selection was answered while the current playlist held tracks
SelectionAnsweredOnly ==
    /\ isdecimal(text)
    /\ Replied(replies, {"answer"})
    /\ replies[1].answer.form \in {"info", "info_no_album", "album", "no_album"}
    /\ pending = NoPending
    /\ USER \in DOMAIN by_user
    /\ CurrentTracks(by_user, current) # <<>>

\* C5: there is one pending selection: a command that resolves ambiguously
\* leaves its own candidates, kind and context pending, whatever was pending
\* before, and digits in range are continued by the kind and the candidates
\* pending at that time.
PendingIsTheLatest ==
    [][/\ (text' # <<>> /\ Replied(replies', {"disambiguation"})) =>
             /\ pending'.type = "add"
             /\ Uris(Take(pending'.options, DisplayCap)) = replies'[1].shown
             /\ Len(pending'.options) = replies'[1].total
             /\ pending'.context.title = Parsed[text'].b
       /\ (text' # <<>> /\ Replied(replies', {"qa_disambiguation"})) =>
             /\ pending'.type = "qa"
             /\ Uris(Take(pending'.options, DisplayCap)) = replies'[1].shown
             /\ Len(pending'.options) = replies'[1].total
             /\ pending'.context.question_type = Parsed[text'].q.kind
             /\ pending'.context.title = Parsed[text'].q.title
       /\ InRange =>
             IF pending.type = "qa"
             THEN /\ Replied(replies', {"answer"})
                  /\ replies'[1].answer.artist = pending.options[Choice].artist
                  /\ replies'[1].answer.form
                        \in FormsOf(pending.context.question_type)
             ELSE /\ Replied(replies', {"added", "error"})
                  /\ replies'[1].kind = "added" =>
                        replies'[1].uri = pending.options[Choice].uri]_vars

\* an add selection is pending, and the question sent next replaces it by a
\* question selection over three candidates
PendingReplaced ==
    /\ pending.type = "add"
    /\ Len(pending.options) = 2
    /\ \E ord \in CatalogOrders :
          With(receive_utterance(Store, U_ask_info, FALSE, ord, NoExt).pending,
               LAMBDA p : p.type = "qa" /\ Len(p.options) = 3
                          /\ p.context.question_type = "track_info")

\* C6: digits sent while a selection is pending are handled by the selection
\* handler and by nothing else (its messages: the invalid choice, the answer,
\* the confirmation, or the error of a failed conversion or add); text that is
\* not digits is never taken as a choice and gets the messages of its command.
DigitsGoToSelection ==
    [][text' # <<>> =>
          IF isdigit(text') /\ pending # NoPending
          THEN IF ~isdecimal(text')
               THEN Replied(replies', {"error"}) /\ replies'[1].err = S_ValueError
               ELSE IF Choice \in 1..Len(pending.options)
               THEN Replied(replies', {"answer", "added", "error"})
               ELSE Replied(replies', {"invalid_choice"})
          ELSE ~isdigit(text') =>
                  Replied(replies', OrdinaryReplies(Parsed[text'].cmd) \cup {"error"})]_vars

\* digits were sent while a selection was pending and the selection handler
\* answered them
DigitsTakenBySelection ==
    /\ isdigit(text)
    /\ Replied(replies, {"invalid_choice"})
    /\ pending # NoPending

\* C7: digits sent while nothing is pending are answered with the
\* no-pending-selection message and change neither the playlists, nor the
\* current playlist, nor the pending selection.
DigitsWithoutPending ==
    [][(pending = NoPending /\ isdigit(text')) =>
          /\ Replied(replies', {"no_pending"})
          /\ by_user' = by_user
          /\ current' = current
          /\ pending' = NoPending]_vars

\* C8: no playlist holds two tracks with the same track identifier.
NoDuplicateTracks ==
    \A u \in DOMAIN by_user : \A p \in 1..Len(by_user[u]) :
        \A i, j \in 1..Len(by_user[u][p].tracks) :
            by_user[u][p].tracks[i].uri = by_user[u][p].tracks[j].uri => i = j

\* two playlists, one holding two tracks and another a track of the first
TracksInTwoPlaylists ==
    \E u \in DOMAIN by_user : \E p, q \in 1..Len(by_user[u]) :
        /\ p # q
        /\ Len(by_user[u][p].tracks) = 2
        /\ Len(by_user[u][q].tracks) >= 1
        /\ InSeq(by_user[u][q].tracks[1].uri, Uris(by_user[u][p].tracks))

\* C9: every user the service has been asked about has a playlist named
\* default, and a current playlist that is one of the user's playlists.
CurrentExists ==
    /\ DOMAIN current = DOMAIN by_user
    /\ \A u \in DOMAIN by_user :
          /\ HasName(by_user[u], S_default)
          /\ HasName(by_user[u], current[u])

\* an operation failed (the cover could not be rendered) after it made
\* another playlist the current one
FailedAfterSwitching ==
    /\ coverFaults > 0
    /\ Replied(replies, {"error"})
    /\ USER \in DOMAIN by_user
    /\ current[USER] # S_default

\* the step handles "/add <artist>: <title>" with the artist and title of T,
\* in any letter case
ExactAdd(T) ==
    /\ text' # <<>>
    /\ Parsed[text'].cmd = "add_artist_title"
    /\ lower(Parsed[text'].a) = lower(T.artist)
    /\ lower(Parsed[text'].b) = lower(T.title)

\* C10: "/add <artist>: <title>" with the artist and title of a catalog track
\* T, in any letter case, is confirmed as added, without a list to choose from
\* and without an error, and T is in the current playlist afterwards.
ExactAddAdds ==
    [][\A T \in Catalog :
          ExactAdd(T) =>
             /\ Replied(replies', {"added"})
             /\ replies'[1].uri = T.uri
             /\ InSeq(T.uri, CurrentTracks(by_user', current'))]_vars

-----------------------------------------------------------------------------
(* Properties of the add references                                          *)

\* the step handles "/add <reference>", and the reference
AddStep == text' # <<>> /\ startswith(text', S_add)
Reference == strip(Slice(text', 6, Len(text')))

\* the parts of s before and after the first occurrence of p in where (where
\* is s, or s in lower case)
Before(s, where, p) == strip(Slice(s, 1, index(where, p) - 1))
After(s, where, p) == strip(Slice(s, index(where, p) + Len(p), Len(s)))

\* the separator rule that comes first for the reference q
RuleOf(q) ==
    IF contains(q, S_colon) THEN "colon"
    ELSE IF contains(lower(q), S_by) THEN "by"
    ELSE IF contains(q, S_dash) THEN "dash"
    ELSE "title"

\* <<artist, title>> of q by that rule
SplitOf(q) ==
    CASE RuleOf(q) = "colon" -> <<Before(q, q, S_colon), After(q, q, S_colon)>>
      [] RuleOf(q) = "by" -> <<After(q, lower(q), S_by), Before(q, lower(q), S_by)>>
      [] RuleOf(q) = "dash" -> <<Before(q, q, S_dash), After(q, q, S_dash)>>
      [] OTHER -> <<NoText, q>>

\* the playlists and the current playlist are as before the step (a user not
\* seen before may have got the default playlist)
PlaylistsUnchanged ==
    /\ by_user' \in {by_user, ensure_user(Store, USER).by_user}
    /\ current' \in {current, ensure_user(Store, USER).current}

\* C11: an add reference is parsed by the first rule, in the order colon,
\* " by ", " - ", title only, that its separators allow: split at the colon, or
\* else around " by " in any case, or else around " - ", each into a non-empty
\* artist and title, and taken as a title only when it has no separator.
AddParsedInOrder ==
    [][(AddStep /\ (RuleOf(Reference) = "title"
                    \/ (SplitOf(Reference)[1] # <<>> /\ SplitOf(Reference)[2] # <<>>))) =>
          IF RuleOf(Reference) = "title"
          THEN /\ Parsed[text'].cmd = "add_title"
               /\ Parsed[text'].b = Reference
          ELSE /\ Parsed[text'].cmd = "add_artist_title"
               /\ Parsed[text'].a = SplitOf(Reference)[1]
               /\ Parsed[text'].b = SplitOf(Reference)[2]]_vars

\* the catalog tracks the fuzzy search gives for an artist and a title
FuzzyMatches(d, artist, title) ==
    With(search_by_artist_title_fuzzy(ensure_db(d), artist, title, QaLimit,
                                      CHOOSE o \in CatalogOrders : TRUE),
         LAMBDA rows : {rows[i].uri : i \in 1..Len(rows)})

\* whether the catalog has the exact match of an artist and a title
HasExact(d, artist, title) ==
    \E r \in ensure_db(d) : /\ lower(r.artist) = lower(artist)
                            /\ lower(r.title) = lower(title)

\* C12: an add reference parsed into an artist and a title that have no exact
\* match is settled by the fuzzy search: no candidate, the not-found reply and
\* nothing changed; one candidate, it is in the current playlist afterwards and
\* the pending selection is as before; several, they are left pending as an
\* add selection and the playlists are as before.
FuzzyAddByCount ==
    [][(/\ AddStep
        /\ Parsed[text'].cmd = "add_artist_title"
        /\ ~HasExact(db, Parsed[text'].a, Parsed[text'].b)) =>
          With(FuzzyMatches(db, Parsed[text'].a, Parsed[text'].b), LAMBDA found :
              CASE found = {} ->
                      /\ Replied(replies', {"not_found"})
                      /\ PlaylistsUnchanged
                      /\ pending' = pending
                [] Cardinality(found) = 1 ->
                      /\ Replied(replies', {"added", "error"})
                      /\ USER \in DOMAIN by_user'
                      /\ \A x \in found : InSeq(x, CurrentTracks(by_user', current'))
                      /\ pending' = pending
                [] OTHER ->
                      /\ Replied(replies', {"disambiguation"})
                      /\ pending'.type = "add"
                      /\ {pending'.options[i].uri :
                             i \in 1..Len(pending'.options)} = found
                      /\ PlaylistsUnchanged)]_vars

\* the catalog tracks that the title search selects for q: those whose title
\* is q or starts with q, in any case ("%" and "_" in q as LIKE reads them)
TitleMatches(d, q) ==
    {r \in ensure_db(d) : Like(lower(r.title), lower(q) \o <<"%">>)}

\* the artists of the tracks of the current playlist before the step
ExistingArtists ==
    IF USER \in DOMAIN by_user
    THEN {lower(CurrentOf(Store, USER).tracks[i].artist) :
             i \in 1..Len(CurrentOf(Store, USER).tracks)}
    ELSE {}

\* C13: a title-only add reference is settled by the ranked title search: no
\* result, the not-found reply and nothing changed; one result, it is in the
\* current playlist afterwards; several, they (the search limit of them when
\* more match) are left pending as an add selection, those of artists of the
\* current playlist first, and the playlists are as before.
TitleOnlyAddByCount ==
    [][(AddStep /\ Parsed[text'].cmd = "add_title") =>
          With(TitleMatches(db, Parsed[text'].b), LAMBDA found :
              CASE found = {} ->
                      /\ Replied(replies', {"not_found_title"})
                      /\ PlaylistsUnchanged
                      /\ pending' = pending
                [] Cardinality(found) = 1 ->
                      /\ Replied(replies', {"added", "error"})
                      /\ \A r \in found :
                            InSeq(r.uri, CurrentTracks(by_user', current'))
                      /\ pending' = pending
                [] OTHER ->
                      /\ Replied(replies', {"disambiguation"})
                      /\ pending'.type = "add"
                      /\ {pending'.options[i] : i \in 1..Len(pending'.options)}
                            \subseteq found
                      /\ Len(pending'.options)
                            = Min(Cardinality(found), TitleSearchLimit)
                      /\ \A i, j \in 1..Len(pending'.options) :
                            i # j => pending'.options[i] # pending'.options[j]
                      /\ \A i, j \in 1..Len(pending'.options) :
                            (i < j /\ lower(pending'.options[j].artist)
                                         \in ExistingArtists)
                            => lower(pending'.options[i].artist) \in ExistingArtists
                      /\ PlaylistsUnchanged)]_vars

\* the only track titled Yo was added by its title
UniqueTitleAdded ==
    /\ text = strip(U_add_yo)
    /\ Replied(replies, {"added"})
    /\ replies[1].uri = T3.uri
    /\ InSeq(T3.uri, CurrentTracks(by_user, current))

\* C17: an add reference with a separator that leaves an empty artist or an
\* empty title is answered with the invalid-reference error: it is not searched
\* as a title, no track is added and no selection is left pending.
EmptyPartRejected ==
    [][(/\ AddStep
        /\ RuleOf(Reference) # "title"
        /\ (SplitOf(Reference)[1] = <<>> \/ SplitOf(Reference)[2] = <<>>)) =>
          /\ Replied(replies', {"invalid_reference"})
          /\ PlaylistsUnchanged
          /\ pending' = pending]_vars

-----------------------------------------------------------------------------
(* Properties of the prompts and of the candidates kept                      *)

\* C14: a prompt for an ambiguous add reference shows at most 10 candidates
\* and reports as total the number of catalog tracks that match the
\* reference, also when more match than the cap or the search limit.
PromptReportsTrueTotal ==
    [][(AddStep /\ Parsed[text'].cmd = "add_title"
                /\ Replied(replies', {"disambiguation"})) =>
          /\ Len(replies'[1].shown) <= DisplayCap
          /\ replies'[1].total
                = Cardinality(TitleMatches(db, Parsed[text'].b))]_vars

\* C18: a pending selection never holds more candidates than the display cap.
PendingWithinDisplayCap ==
    pending # NoPending => Len(pending.options) <= DisplayCap

-----------------------------------------------------------------------------
(* Properties of the questions                                               *)

S_ask_who_sings == <<"/","a","s","k"," ","w","h","o"," ","s","i","n","g","s"," ">>

\* the step handles "/ask who sings <title>", and the title asked about
WhoSings == text' # <<>> /\ startswith(text', S_ask_who_sings)
AskedTitle == strip(Slice(text', Len(S_ask_who_sings) + 1, Len(text')))

\* the catalog tracks that have the title, in any case
TitleSharers(d, title) == {r \in ensure_db(d) : lower(r.title) = lower(title)}

\* C15: "who sings <title>" for a title that two or more catalog tracks share
\* is answered with a disambiguation request: a selection of kind qa is left
\* pending with as many candidates as tracks share the title.
WhoSingsSharedTitleAsks ==
    [][(WhoSings /\ Cardinality(TitleSharers(db, AskedTitle)) >= 2) =>
          /\ Replied(replies', {"qa_disambiguation"})
          /\ pending'.type = "qa"
          /\ Len(pending'.options) = Cardinality(TitleSharers(db, AskedTitle))]_vars

TrackQuestionTypes == {"track_album", "track_artist", "track_exists", "track_info"}

\* the step handles a question about a track, as the question patterns read it
TrackQuestion ==
    /\ text' # <<>>
    /\ Parsed[text'].cmd = "ask"
    /\ Parsed[text'].q.kind \in TrackQuestionTypes

\* the sentences that answer a question type about a track, and those that say
\* the track was not found
DirectForms(question_type) ==
    IF question_type = "track_artist" THEN {"performed_by"}
    ELSE FormsOf(question_type)
NotFoundForms == {"track_not_found", "not_exists", "no_track_named"}

\* the candidates of the search for a question: the fuzzy search by artist
\* and title, or the title search when the question names no artist
QuestionCandidates(d, pq) ==
    IF pq.artist = NoText
    THEN {r.uri : r \in TitleMatches(d, pq.title)}
    ELSE FuzzyMatches(d, pq.artist, pq.title)

\* C16: a track question of any type is answered from the exact match when
\* there is one; otherwise by the fuzzy search: no candidate, a not-found
\* answer; one, the answer about it; several, a disambiguation request that
\* carries the question type and the candidates.
TrackQuestionsResolvedAlike ==
    [][TrackQuestion =>
          With(Parsed[text'].q, LAMBDA pq :
          With(QuestionCandidates(db, pq), LAMBDA found :
              IF HasExact(db, pq.artist, pq.title)
              THEN /\ Replied(replies', {"answer"})
                   /\ replies'[1].answer.form \in DirectForms(pq.kind)
                   /\ lower(replies'[1].answer.artist) = lower(pq.artist)
                   /\ lower(replies'[1].answer.title) = lower(pq.title)
              ELSE CASE found = {} ->
                           /\ Replied(replies', {"answer"})
                           /\ replies'[1].answer.form \in NotFoundForms
                     [] Cardinality(found) = 1 ->
                           /\ Replied(replies', {"answer"})
                           /\ replies'[1].answer.form \in DirectForms(pq.kind)
                           /\ \E r \in ensure_db(db) :
                                 /\ r.uri \in found
                                 /\ replies'[1].answer.artist = r.artist
                                 /\ replies'[1].answer.title = r.title
                     [] OTHER ->
                           /\ Replied(replies', {"qa_disambiguation"})
                           /\ pending'.type = "qa"
                           /\ pending'.context.question_type = pq.kind
                           /\ {pending'.options[i].uri :
                                  i \in 1..Len(pending'.options)} = found))]_vars

-----------------------------------------------------------------------------
(* Properties of creating playlists                                          *)

\* the step handles "/create <name>", the name, and the user's playlists
\* before it (a user not seen before has the default playlist)
CreateStep == text' # <<>> /\ Parsed[text'].cmd = "create"
CreatedName == Parsed[text'].a
Seen == ensure_user(Store, USER)

\* C19: creating a playlist under a name the user already has (default, for a
\* user not seen before) fails with the already-exists error and leaves the
\* playlists, their tracks and the current playlist as they were.
ExistingNameRefused ==
    [][(CreateStep /\ HasName(Seen.by_user[USER], CreatedName)) =>
          /\ Replied(replies', {"error"})
          /\ replies'[1].err = "Playlist already exists."
          /\ by_user' = Seen.by_user
          /\ current' = Seen.current]_vars

\* playlist a was refused a second time while default, holding a track, was
\* the current playlist
SecondCreateRefused ==
    /\ text = strip(U_create_a)
    /\ Replied(replies, {"error"})
    /\ replies[1].err = "Playlist already exists."
    /\ current[USER] = S_default
    /\ HasName(by_user[USER], <<"a">>)
    /\ CurrentTracks(by_user, current) # <<>>

\* C20: creating a playlist under a name the user does not have yet adds an
\* empty playlist of that name, makes it the current playlist, and leaves the
\* playlists that existed, with their tracks, as they were.
NewNameCreated ==
    [][(CreateStep /\ ~HasName(Seen.by_user[USER], CreatedName)) =>
          /\ USER \in DOMAIN by_user'
          /\ Len(by_user'[USER]) = Len(Seen.by_user[USER]) + 1
          /\ by_user'[USER][Len(by_user'[USER])].name = CreatedName
          /\ by_user'[USER][Len(by_user'[USER])].tracks = <<>>
          /\ current'[USER] = CreatedName
          /\ \A i \in 1..Len(Seen.by_user[USER]) :
                /\ by_user'[USER][i].name = Seen.by_user[USER][i].name
                /\ by_user'[USER][i].tracks = Seen.by_user[USER][i].tracks]_vars

\* playlist a was created, empty and current, beside a default playlist that
\* holds a track
CreatedBesideTracks ==
    /\ text = strip(U_create_a)
    /\ Replied(replies, {"created"})
    /\ current[USER] = <<"a">>
    /\ CurrentTracks(by_user, current) = <<>>
    /\ by_user[USER][Pos(by_user[USER], S_default)].tracks # <<>>

-----------------------------------------------------------------------------
(* Properties of the PlaylistService operations, called directly            *)

\* the step is a direct call of the operation; its argument, the message of
\* the exception it raised ("" when it returned) and the value it returned
Call(op) ==
    /\ text' = <<>>
    /\ Len(replies') = 1
    /\ replies'[1].kind = "called"
    /\ replies'[1].op = op
Arg == replies'[1].arg
Raised == replies'[1].err
Returned == replies'[1].val

\* the same playlists, by name and in the same order, with the same tracks
SameTracks(before, after) ==
    /\ Names(after) = Names(before)
    /\ \A i \in 1..Len(before) : after[i].tracks = before[i].tracks

\* C21: switch(name) for a name the user does not have raises the not-found
\* error and leaves the current playlist and all playlists as they were; for a
\* name the user has it makes that playlist current, and the playlists and
\* their tracks are as before.
SwitchSetsCurrentOnly ==
    [][Call("switch") =>
          IF ~HasName(Seen.by_user[USER], Arg)
          THEN /\ Raised = "Playlist does not exist."
               /\ by_user' = Seen.by_user
               /\ current' = Seen.current
          ELSE /\ current'[USER] = Arg
               /\ SameTracks(Seen.by_user[USER], by_user'[USER])]_vars

\* the call switched from playlist a back to default, which holds a track
SwitchedBack ==
    /\ text = <<>>
    /\ Len(replies) = 1
    /\ replies[1].kind = "called"
    /\ replies[1].op = "switch"
    /\ replies[1].arg = S_default
    /\ replies[1].err = ""
    /\ current[USER] = S_default
    /\ HasName(by_user[USER], <<"a">>)
    /\ CurrentTracks(by_user, current) # <<>>

\* the tracks of the current playlist before the step
TracksBefore == CurrentOf(Seen, USER).tracks

\* the playlists and the current playlist are those before the step
NothingChanged == by_user' = Seen.by_user /\ current' = Seen.current

\* C22: remove(identifier) on a current playlist of L entries raises the
\* index error when the identifier is a number that is 0 or greater than L,
\* and the not-in-playlist error when it is not all digits and no entry has it
\* as track identifier; both leave the playlists as they were.
RemoveRefusals ==
    [][Call("remove") =>
          /\ (isdecimal(Arg) /\ (int(Arg) = 0 \/ int(Arg) > Len(TracksBefore))) =>
                (Raised = "Index out of range." /\ NothingChanged)
          /\ (~isdigit(Arg) /\ ~InSeq(Arg, Uris(TracksBefore))) =>
                (Raised = "Track not found in current playlist."
                 /\ NothingChanged)]_vars

\* remove("1") was refused on an empty current playlist
RemoveFromEmptyRefused ==
    /\ text = <<>>
    /\ Len(replies) = 1
    /\ replies[1].kind = "called"
    /\ replies[1].op = "remove"
    /\ replies[1].arg = <<"1">>
    /\ replies[1].err = "Index out of range."
    /\ CurrentTracks(by_user, current) = <<>>

\* the sequence s without its entry at position k
Without(s, k) == [j \in 1..(Len(s) - 1) |-> IF j < k THEN s[j] ELSE s[j + 1]]

\* C23: a remove(identifier) that returns takes exactly one entry out of the
\* current playlist, the one at the position given or the one with the track
\* identifier given, returns it, keeps the other entries in their order, and
\* leaves the other playlists and the current playlist as they were.
RemoveTakesOne ==
    [][(Call("remove") /\ Raised = "") =>
          \E k \in 1..Len(TracksBefore) :
              /\ isdigit(Arg) => k = int(Arg)
              /\ ~isdigit(Arg) => TracksBefore[k].uri = Arg
              /\ Returned = TracksBefore[k]
              /\ current' = Seen.current
              /\ Names(by_user'[USER]) = Names(Seen.by_user[USER])
              /\ \A i \in 1..Len(Seen.by_user[USER]) :
                    by_user'[USER][i].tracks =
                        IF i = CurrentPos(Seen, USER)
                        THEN Without(TracksBefore, k)
                        ELSE Seen.by_user[USER][i].tracks]_vars

\* the first of three entries was removed by its position while another
\* playlist holds nothing
FirstOfThreeRemoved ==
    /\ text = <<>>
    /\ Len(replies) = 1
    /\ replies[1].kind = "called"
    /\ replies[1].op = "remove"
    /\ replies[1].arg = <<"1">>
    /\ replies[1].err = ""
    /\ Len(CurrentTracks(by_user, current)) = 2
    /\ Len(by_user[USER]) = 2

\* C24: add_by_uri for a catalog track that the current playlist does not
\* hold appends it as the last entry, the entries before it being as they
\* were; for a track it holds, nothing changes and the track is returned all
\* the same, so that a second add of a track leaves what the first one left.
AddByUriAppendsOnce ==
    [][(Call("add_by_uri") /\ \E r \in ensure_db(db) : r.uri = Arg) =>
          IF InSeq(Arg, Uris(TracksBefore))
          THEN /\ Raised = ""
               /\ Returned = Track(RowOf(ensure_db(db), Arg))
               /\ NothingChanged
          ELSE /\ current' = Seen.current
               /\ Names(by_user'[USER]) = Names(Seen.by_user[USER])
               /\ \A i \in 1..Len(Seen.by_user[USER]) :
                     by_user'[USER][i].tracks =
                         IF i = CurrentPos(Seen, USER)
                         THEN Append(TracksBefore, Track(RowOf(ensure_db(db), Arg)))
                         ELSE Seen.by_user[USER][i].tracks
               /\ Raised = "" => Returned = Track(RowOf(ensure_db(db), Arg))]_vars

\* a track was added again to a playlist that holds it before another one
AddedAgain ==
    /\ text = <<>>
    /\ Len(replies) = 1
    /\ replies[1].kind = "called"
    /\ replies[1].op = "add_by_uri"
    /\ replies[1].err = ""
    /\ replies[1].arg = T1.uri
    /\ replies[1].val = Track(T1)
    /\ CurrentTracks(by_user, current) = <<T1.uri, T2.uri>>

\* C25: clear empties the playlist named, or the current playlist when no
\* name is given, and nothing else: the names of the playlists, the tracks of
\* the other playlists and the current playlist are as before.
ClearEmptiesOne ==
    [][(Call("clear")
        /\ HasName(Seen.by_user[USER],
                   IF Arg # <<>> THEN Arg ELSE Seen.current[USER])) =>
          With(Pos(Seen.by_user[USER],
                   IF Arg # <<>> THEN Arg ELSE Seen.current[USER]), LAMBDA target :
              /\ current' = Seen.current
              /\ Names(by_user'[USER]) = Names(Seen.by_user[USER])
              /\ \A i \in 1..Len(Seen.by_user[USER]) :
                    by_user'[USER][i].tracks =
                        IF i = target THEN <<>>
                        ELSE Seen.by_user[USER][i].tracks)]_vars

\* playlist a was cleared by its name while default, holding a track, is the
\* current playlist
OtherPlaylistCleared ==
    /\ text = <<>>
    /\ Len(replies) = 1
    /\ replies[1].kind = "called"
    /\ replies[1].op = "clear"
    /\ replies[1].arg = <<"a">>
    /\ replies[1].err = ""
    /\ current[USER] = S_default
    /\ CurrentTracks(by_user, current) # <<>>
    /\ by_user[USER][Pos(by_user[USER], <<"a">>)].tracks = <<>>

\* s is the beginning of t
IsPrefix(s, t) == Len(s) <= Len(t) /\ \A i \in 1..Len(s) : t[i] = s[i]

\* C26: list returns the names of the user's playlists, each once, in the
\* order they were created, default first: no operation removes a name or
\* changes the order of the names, a new name comes last, and list returns
\* the names in that order.
ListInCreationOrder ==
    [][/\ IsPrefix(Names(Seen.by_user[USER]), Names(by_user'[USER]))
       /\ Names(by_user'[USER])[1] = S_default
       /\ \A i, j \in 1..Len(by_user'[USER]) :
             i # j => by_user'[USER][i].name # by_user'[USER][j].name
       /\ Call("list") => Returned = Names(Seen.by_user[USER])]_vars

\* list returned default, b, a while a, created last, is not the current
\* playlist
ListedAsCreated ==
    /\ text = <<>>
    /\ Len(replies) = 1
    /\ replies[1].kind = "called"
    /\ replies[1].op = "list"
    /\ replies[1].val = <<S_default, <<"b">>, <<"a">>>>
    /\ current[USER] = <<"b">>

-----------------------------------------------------------------------------
(* Properties of the failures                                                *)

\* the cover renderer raised during the step
CoverFailed == coverFaults' = coverFaults + 1

\* a message of the step is an error message
ErrorSent == \E i \in 1..Len(replies') : replies'[i].kind = "error"

\* C27: when the cover renderer raises in the step of an utterance, the
\* failure is swallowed: the step sends the confirmation of its operation and
\* no error message.
CoverFailureSwallowed ==
    [][(text' # <<>> /\ CoverFailed) =>
          /\ Replied(replies', {"added", "removed", "cleared", "created", "switched"})
          /\ ~ErrorSent]_vars

\* C28: an error raised while an utterance is handled is answered with
\* exactly one message, the error message, and the playlists and the current
\* playlist are as before the utterance.
ErrorsLeaveNoTrace ==
    [][(text' # <<>> /\ ErrorSent) =>
          /\ Replied(replies', {"error"})
          /\ PlaylistsUnchanged]_vars

\* C29: no step changes the rows of the catalog, an empty catalog included.
CatalogOnlyRead == [][db' = db]_vars

-----------------------------------------------------------------------------
(* Properties of the title search                                            *)

\* the title of the row is the query, or starts with it, in any case
TitleIs(row, q) == lower(row.title) = lower(q)
TitleStartsWith(row, q) == startswith(lower(row.title), lower(q))

\* C30: search_by_title(title, limit) returns only catalog tracks whose title
\* in lower case is the query in lower case or starts with it, at most limit
\* of them, none twice, those whose title is the query before the others, and
\* among either the shorter titles first.
TitleSearchResults ==
    [][Call("search_by_title") =>
          With(strip(Arg.title), LAMBDA q :
              /\ Len(Returned) <= Arg.limit
              /\ \A i \in 1..Len(Returned) :
                    /\ Returned[i] \in db
                    /\ TitleIs(Returned[i], q) \/ TitleStartsWith(Returned[i], q)
              /\ \A i, j \in 1..Len(Returned) :
                    i < j =>
                      /\ Returned[i] # Returned[j]
                      /\ TitleIs(Returned[j], q) => TitleIs(Returned[i], q)
                      /\ (TitleIs(Returned[i], q) <=> TitleIs(Returned[j], q))
                            => Len(Returned[i].title) <= Len(Returned[j].title))]_vars

\* the tier at which a text matches a query: 0 equal, 1 starts with it,
\* 2 contains it, 3 neither; all in lower case
TierOf(x, q) ==
    IF lower(x) = q THEN 0
    ELSE IF startswith(lower(x), q) THEN 1
    ELSE IF contains(lower(x), q) THEN 2 ELSE 3

\* the artist tier has no prefix step: 0 equal, 1 contains, 2 neither
ArtistTierOf(x, q) == IF lower(x) = q THEN 0 ELSE IF contains(lower(x), q) THEN 1 ELSE 2

\* the sort key of a row for the queries a and t
FuzzyKey(row, a, t) == <<ArtistTierOf(row.artist, a), TierOf(row.title, t), Len(row.title)>>

\* k1 is not after k2 in the lexicographic order of triples
KeyLeq(k1, k2) ==
    \/ k1[1] < k2[1]
    \/ k1[1] = k2[1] /\ k1[2] < k2[2]
    \/ k1[1] = k2[1] /\ k1[2] = k2[2] /\ k1[3] <= k2[3]

\* the catalog tracks whose artist and title both equal or contain the queries
BothMatch(d, a, t) ==
    {r \in d : ArtistTierOf(r.artist, a) < 2 /\ TierOf(r.title, t) < 3}

\* C31: search_by_artist_title_fuzzy(artist, title, limit) with a non-empty
\* artist and title returns catalog tracks whose artist equals or contains the
\* artist query and whose title equals or contains the title query (in lower
\* case), never a track matching only one of them, none twice, as many as
\* match up to limit, ordered by artist tier, then title tier, then title
\* length.
FuzzySearchResults ==
    [][Call("search_by_artist_title_fuzzy") =>
          With(lower(strip(Arg.artist)), LAMBDA a :
          With(lower(strip(Arg.title)), LAMBDA t :
              (a # <<>> /\ t # <<>>) =>
                  /\ Len(Returned) = Min(Arg.limit, Cardinality(BothMatch(db, a, t)))
                  /\ \A i \in 1..Len(Returned) : Returned[i] \in BothMatch(db, a, t)
                  /\ \A i, j \in 1..Len(Returned) :
                        i < j => /\ Returned[i] # Returned[j]
                                 /\ KeyLeq(FuzzyKey(Returned[i], a, t),
                                           FuzzyKey(Returned[j], a, t))))]_vars

\* C40: for "who sings <title>" the question is read as one about the artist
\* of a track and the title handed to the catalog lookup is the whole title
\* of the question, not a proper prefix of it.
WhoSingsPassesWholeTitle ==
    [][WhoSings =>
          /\ Parsed[text'].cmd = "ask"
          /\ Parsed[text'].q.kind = "track_artist"
          /\ Parsed[text'].q.title = AskedTitle]_vars

\* C38: a pending selection always has two or more candidates; a step leaves a
\* new one only together with a disambiguation request; and a title-only add
\* or a track question with no or one candidate leaves the pending selection
\* as it was.
PendingNeedsTwo ==
    [][/\ pending' # NoPending => Len(pending'.options) >= 2
       /\ (pending' # pending /\ pending' # NoPending) =>
             Replied(replies', {"disambiguation", "qa_disambiguation"})
       /\ (/\ AddStep
           /\ Parsed[text'].cmd = "add_title"
           /\ Cardinality(TitleMatches(db, Parsed[text'].b)) <= 1) =>
             pending' = pending
       /\ (/\ TrackQuestion
           /\ Cardinality(QuestionCandidates(db, Parsed[text'].q)) <= 1) =>
             pending' = pending]_vars

\* the only track titled Yo was added while a selection of several tracks
\* stayed pending
PendingKeptByUniqueAdd ==
    /\ text = strip(U_add_yo)
    /\ Replied(replies, {"added"})
    /\ pending.type = "add"
    /\ Len(pending.options) >= 2

\* C39: every operation that creates a playlist or changes its tracks
\* recomputes its cover from the tracks it then holds, so the stored cover of
\* a playlist is never that of an older track list: it is the cover of the
\* tracks the playlist holds now (or none, for a playlist never rendered).
CoverNeverStale ==
    USER \in DOMAIN by_user =>
        \A i \in 1..Len(by_user[USER]) :
            by_user[USER][i].cover_url
                \in {NoCover, generate_cover(USER, by_user[USER][i])}

-----------------------------------------------------------------------------
(* Properties of the ranking                                                 *)

\* the last step was a direct call of op
WasCall(op) ==
    /\ Len(replies) = 1
    /\ replies[1].kind = "called"
    /\ replies[1].op = op

\* the position of the row x in the list of rows s
PlaceIn(s, x) == CHOOSE i \in 1..Len(s) : s[i] = x

\* the popularity the service holds for a row after the step, 0 when the
\* service is not configured
HeldPopularity(row) ==
    IF spotify'.configured THEN spotify'.popularity_cache[SpotifyKey(row)] ELSE 0

\* C32: in the result of the ranked title search every candidate by an artist
\* of the current playlist (in any case) precedes every candidate by another
\* artist, with or without the external service and whatever it answers; the
\* ranking of the candidates of a fuzzy lookup gives such artists no priority:
\* it orders them by external popularity alone and keeps the order of the
\* lookup among equals.
ExistingArtistsFirst ==
    [][/\ Call("search_tracks_by_title") =>
             \A i, j \in 1..Len(Returned) :
                 (i < j /\ lower(Returned[j].artist) \in ExistingArtists)
                     => lower(Returned[i].artist) \in ExistingArtists
       /\ Call("rank_by_spotify_popularity") =>
             /\ Len(Returned) = Len(Arg.results)
             /\ \A i \in 1..Len(Returned) : InSeq(Returned[i], Arg.results)
             /\ \A i, j \in 1..Len(Returned) :
                   i < j =>
                     \/ HeldPopularity(Returned[i]) > HeldPopularity(Returned[j])
                     \/ /\ HeldPopularity(Returned[i]) = HeldPopularity(Returned[j])
                        /\ PlaceIn(Arg.results, Returned[i])
                               < PlaceIn(Arg.results, Returned[j])]_vars

\* with track R7 in the playlist, R4 by the same artist led the seven
\* candidates although the service answered 0 for it and 50 for R1
ExistingArtistLed ==
    /\ WasCall("search_tracks_by_title")
    /\ spotify.configured
    /\ replies[1].arg.ext = ExtSome
    /\ Len(replies[1].val) = 7
    /\ replies[1].val[1] = R4
    /\ replies[1].val[2] = R7
    /\ replies[1].val[3] = R1
    /\ {SpotifyKey(R4), SpotifyKey(R1)} \subseteq DOMAIN spotify.popularity_cache
    /\ spotify.popularity_cache[SpotifyKey(R4)] = 0
    /\ spotify.popularity_cache[SpotifyKey(R1)] = 50

\* the places of the scored candidates that are asked about: the first
\* MAX_SPOTIFY_CALLS by local count, earlier candidates first among equals
AskedPlaces(d, scored) ==
    {i \in 1..Len(scored) :
        Cardinality({j \in 1..Len(scored) :
            \/ get_track_popularity(d, scored[j].row.uri)
                   > get_track_popularity(d, scored[i].row.uri)
            \/ /\ get_track_popularity(d, scored[j].row.uri)
                      = get_track_popularity(d, scored[i].row.uri)
               /\ j < i}) < MAX_SPOTIFY_CALLS}

\* the external popularity of a candidate in a call: 0 when the service is
\* not configured or the candidate is not asked about; else what the service
\* holds for it, or answers now, 0 for a failure
ExternalOf(row, asked, ext) ==
    IF ~spotify.configured \/ ~asked THEN 0
    ELSE IF SpotifyKey(row) \in DOMAIN spotify.popularity_cache
    THEN spotify.popularity_cache[SpotifyKey(row)]
    ELSE IF ext[SpotifyKey(row)] = Failed THEN 0
    ELSE ext[SpotifyKey(row)]

\* C34: the popularity score of every candidate of the title ranking is 10
\* times its local count plus its external popularity, which is 0 for a
\* candidate that is not asked about, whose lookup fails, or when the service
\* is not configured.
ScoreIsLocalPlusExternal ==
    [][Call("final_results") =>
          \A i \in 1..Len(Returned) :
              Returned[i].popularity =
                  10 * get_track_popularity(db, Returned[i].row.uri)
                  + ExternalOf(Returned[i].row,
                               i \in AskedPlaces(db, Returned), Arg.ext)]_vars

\* seven candidates were scored: one asked about got 10 + 50, one whose
\* lookup failed got 10, and one not asked about got 10 although the service
\* holds a popularity for it
ScoredThreeWays ==
    /\ WasCall("final_results")
    /\ spotify.configured
    /\ Len(replies[1].val) = 7
    /\ \E i, j, k \in 1..7 :
          /\ replies[1].val[i].popularity = 60
          /\ replies[1].val[j].popularity = 10
          /\ replies[1].arg.ext[SpotifyKey(replies[1].val[j].row)] = Failed
          /\ j \in AskedPlaces(db, replies[1].val)
          /\ replies[1].val[k].popularity = 10
          /\ k \notin AskedPlaces(db, replies[1].val)
          /\ SpotifyKey(replies[1].val[k].row) \in DOMAIN spotify.popularity_cache
          /\ spotify.popularity_cache[SpotifyKey(replies[1].val[k].row)] > 0

\* the answers of the service with 0 in the place of every failure
Zeroed(ext) == [k \in DOMAIN ext |-> IF ext[k] = Failed THEN 0 ELSE ext[k]]

\* a service that is configured, has nothing cached and answers 0 for every key
Unasked == [configured |-> TRUE, popularity_cache |-> <<>>]
AllZero(ext) == [k \in DOMAIN ext |-> 0]

\* C36: whether the external service is not configured or fails for some or
\* all candidates, a ranking call does not raise, returns every candidate, and
\* in the order it gives when the failed lookups (all lookups, without the
\* service) answer 0; so for the title ranking and for the ranking of the
\* candidates of a question.
FailuresCountAsZero ==
    [][/\ Call("search_tracks_by_title") =>
             /\ Raised = ""
             /\ {Returned[i] : i \in 1..Len(Returned)} = TitleMatches(db, Arg.title)
             /\ Returned =
                   IF spotify.configured
                   THEN search_tracks_by_title(Store, USER, Arg.title, Arg.ord,
                                               Zeroed(Arg.ext)).val
                   ELSE search_tracks_by_title([Store EXCEPT !.spotify = Unasked],
                                               USER, Arg.title, Arg.ord,
                                               AllZero(Arg.ext)).val
       /\ Call("rank_by_spotify_popularity") =>
             /\ Raised = ""
             /\ Len(Returned) = Len(Arg.results)
             /\ \A i \in 1..Len(Returned) : InSeq(Returned[i], Arg.results)
             /\ Returned =
                   IF spotify.configured
                   THEN rank_by_spotify_popularity(Store, Arg.results,
                                                   Zeroed(Arg.ext)).val
                   ELSE rank_by_spotify_popularity(
                            [Store EXCEPT !.spotify = Unasked], Arg.results,
                            AllZero(Arg.ext)).val]_vars

\* the title ranking returned the seven candidates while lookups of the call
\* failed; the one the service answered 50 for leads
RankedDespiteFailures ==
    /\ WasCall("search_tracks_by_title")
    /\ spotify.configured
    /\ replies[1].err = ""
    /\ Len(replies[1].val) = 7
    /\ replies[1].val[1] = R1
    /\ \E i \in 2..7 :
          /\ replies[1].arg.ext[SpotifyKey(replies[1].val[i])] = Failed
          /\ SpotifyKey(replies[1].val[i]) \in DOMAIN spotify.popularity_cache
          /\ spotify.popularity_cache[SpotifyKey(replies[1].val[i])] = 0

\* the candidates of a title ranking call that are asked about
AskedAbout ==
    top_by_mpd(db, search_by_title(db, Arg.title,
                       Min(TitleSearchLimit * InitialLimitFactor, InitialLimitMax),
                       Arg.ord))
\* C37: a title ranking call sends the service at most MAX_SPOTIFY_CALLS (5)
\* requests however many candidates match, only for candidates among the
\* first five by local count, and none twice for one (artist, title); what
\* the service holds afterwards is what it held plus the keys requested;
\* without the service nothing is requested.
LookupsCapped ==
    [][Call("search_tracks_by_title") =>
          IF ~spotify.configured THEN spotify' = spotify
          ELSE \A asked \in {AskedAbout} :
               \A sent \in {Requests(DOMAIN spotify.popularity_cache, asked, 1)} :
                   /\ Len(sent) <= 5
                   /\ \A i, j \in 1..Len(sent) : i # j => sent[i] # sent[j]
                   /\ \A i \in 1..Len(sent) :
                         \E k \in 1..Len(asked) :
                             k <= 5 /\ sent[i] = SpotifyKey(asked[k])
                   /\ DOMAIN spotify'.popularity_cache
                         = DOMAIN spotify.popularity_cache
                           \cup {sent[i] : i \in 1..Len(sent)}]_vars

\* seven candidates with six different keys were ranked on a service that
\* held nothing: four requests were sent, one for the two tracks of one key
\* among the five asked about
OneRequestPerKey ==
    /\ WasCall("search_tracks_by_title")
    /\ spotify.configured
    /\ Len(replies[1].val) = 7
    /\ Cardinality(DOMAIN spotify.popularity_cache) = 4
    /\ SpotifyKey(R2) \in DOMAIN spotify.popularity_cache

\* the scores of the candidates of a title ranking call, as the call computes
\* them
ScoresNow ==
    ScoreTitleResults(Store,
        search_by_title(db, Arg.title,
            Min(TitleSearchLimit * InitialLimitFactor, InitialLimitMax), Arg.ord),
        Arg.ext).val
ScoreIn(scored, row) == (CHOOSE x \in {scored[i] : i \in 1..Len(scored)} : x.row = row).popularity

\* artist, in lower case, and title of a are not after those of b
NameLeq(a, b) ==
    ~KeyLess(<<codes(lower(b.artist)), codes(b.title)>>,
             <<codes(lower(a.artist)), codes(a.title)>>)

LocalCountIsOccurrences ==
    [][Call("build_from_mpd_folder") =>
          \A i \in 1..Len(Arg) :
              get_track_popularity(db', Arg[i].uri)
                  = Cardinality({j \in 1..Len(Arg) : Arg[j].uri = Arg[i].uri})]_vars

=============================================================================
